---- MODULE Spec2Model ----
(***************************************************************************)
(* A model of cargo-doc-docusaurus: the re-export resolver, the module     *)
(* assigner, the link resolver, the sidebar keys of the generated pages    *)
(* and the merge of the persisted sidebar file.                            *)
(*                                                                         *)
(* Strings are sequences of one-character strings, so that replace,        *)
(* strip_prefix, starts_with, split and join are computed, not assumed.    *)
(***************************************************************************)
EXTENDS Integers, Sequences, FiniteSets, TLC

VARIABLES rs, ga, tl, out, fs

vars == <<rs, ga, tl, out, fs>>

(***************************************************************************)
(* Strings                                                                 *)
(***************************************************************************)

\* The characters the model uses, in ASCII order (str::cmp compares bytes).
Alphabet == <<"-", "/", ":", "_", "a", "b", "c", "d", "f", "g", "m", "o", "r", "s">>

Ord(ch) == CHOOSE i \in 1..Len(Alphabet) : Alphabet[i] = ch

RECURSIVE StrLess(_, _)
StrLess(s, t) ==
    IF t = <<>> THEN FALSE
    ELSE IF s = <<>> THEN TRUE
    ELSE IF Head(s) = Head(t) THEN StrLess(Tail(s), Tail(t))
    ELSE Ord(Head(s)) < Ord(Head(t))

StrLeq(s, t) == s = t \/ StrLess(s, t)

starts_with(s, p) == Len(p) <= Len(s) /\ SubSeq(s, 1, Len(p)) = p

ends_with(s, p) == Len(p) <= Len(s) /\ SubSeq(s, Len(s) - Len(p) + 1, Len(s)) = p

Drop(s, n) == SubSeq(s, n + 1, Len(s))

\* Option<&str>: [some |-> TRUE, v |-> rest] or [some |-> FALSE, v |-> <<>>]
Some(x) == [some |-> TRUE, v |-> x]
NoStr == [some |-> FALSE, v |-> <<>>]

strip_prefix(s, p) == IF starts_with(s, p) THEN Some(Drop(s, Len(p))) ELSE NoStr

or_else(o, alt) == IF o.some THEN o ELSE alt

unwrap_or(o, d) == IF o.some THEN o.v ELSE d

\* str::replace(from, to): non-overlapping matches, left to right
RECURSIVE replace(_, _, _)
replace(s, from, to) ==
    IF s = <<>> THEN <<>>
    ELSE IF starts_with(s, from) THEN to \o replace(Drop(s, Len(from)), from, to)
    ELSE <<Head(s)>> \o replace(Tail(s), from, to)

\* [String]::join(sep)
RECURSIVE join(_, _)
join(parts, sep) ==
    IF parts = <<>> THEN <<>>
    ELSE IF Len(parts) = 1 THEN parts[1]
    ELSE parts[1] \o sep \o join(Tail(parts), sep)

\* str::split(sep).collect(): always at least one (possibly empty) piece
RECURSIVE SplitAcc(_, _, _)
SplitAcc(s, sep, cur) ==
    IF s = <<>> THEN <<cur>>
    ELSE IF starts_with(s, sep) THEN <<cur>> \o SplitAcc(Drop(s, Len(sep)), sep, <<>>)
    ELSE SplitAcc(Tail(s), sep, cur \o <<Head(s)>>)

split(s, sep) == SplitAcc(s, sep, <<>>)

\* the constant strings of the source
ColonColon == <<":", ":">>
Slash == <<"/">>
Underscore == <<"_">>
Hyphen == <<"-">>
SlashDocsSlash == <<"/", "d", "o", "c", "s", "/">>
SlashDocs == <<"/", "d", "o", "c", "s">>
DocsSlash == <<"d", "o", "c", "s", "/">>
Docs == <<"d", "o", "c", "s">>

\* sequences as sets, and the orders a HashMap may iterate a key set in
Range(s) == {s[i] : i \in 1..Len(s)}

Orders(S) == {o \in [1..Cardinality(S) -> S] : Range(o) = S}

(***************************************************************************)
(* Items (rustdoc_types::Item, reduced to the fields the code reads)       *)
(***************************************************************************)

NoId == -1

NoName == NoStr

\* inner: "module", "struct", "enum", "function", "trait", "constant",
\* "type_alias", "use", "impl" (an ItemEnum the converter cannot format);
\* items: the members of a module; import_id, is_glob: the target of a use;
\* span: the file name of the source location; refs: the [path, id] pairs of
\* the resolved paths in the item's signature, in the order they are written
MkItem(name, vis, inner, items, import_id, is_glob) ==
    [name |-> name, visibility |-> vis, inner |-> inner, items |-> items,
     import_id |-> import_id, is_glob |-> is_glob, span |-> NoStr, refs |-> <<>>]

WithSig(item, span, refs) == [item EXCEPT !.span = span, !.refs = refs]

Ref(path, id) == [path |-> path, id |-> id]

Plain(name, vis, inner) == MkItem(Some(name), vis, inner, <<>>, NoId, FALSE)

Module(name, vis, items) == MkItem(Some(name), vis, "module", items, NoId, FALSE)

Use(vis, import_id, is_glob) == MkItem(NoName, vis, "use", <<>>, import_id, is_glob)

is_public(item) == item.visibility = "public"

can_format_item(item) ==
    item.inner \in {"struct", "enum", "function", "trait", "module", "constant", "type_alias"}

(***************************************************************************)
(* Re-export resolver                                                      *)
(***************************************************************************)

MAX_DEPTH == 10

NoneResult == [found |-> FALSE, id |-> NoId]

\* One invocation of resolve_reexport_chain up to its return or its recursive
\* call: [ret |-> TRUE, result, visited] or [ret |-> FALSE, id, depth, visited].
ResolveCallNoGuards(index, item_id, depth, visited) ==
    IF item_id \in DOMAIN index
    THEN IF index[item_id].inner = "use" /\ index[item_id].import_id # NoId
         THEN [ret |-> FALSE, id |-> index[item_id].import_id, depth |-> depth,
               visited |-> visited, result |-> NoneResult]
         ELSE [ret |-> TRUE, id |-> item_id, depth |-> depth, visited |-> visited,
               result |-> [found |-> TRUE, id |-> item_id]]
    ELSE [ret |-> TRUE, id |-> item_id, depth |-> depth, visited |-> visited,
          result |-> NoneResult]

\* One invocation without the depth guard.
ResolveCallNoDepth(index, item_id, depth, visited) ==
    IF item_id \in visited
    THEN [ret |-> TRUE, id |-> item_id, depth |-> depth, visited |-> visited,
          result |-> NoneResult]
    ELSE IF item_id \in DOMAIN index
    THEN IF index[item_id].inner = "use" /\ index[item_id].import_id # NoId
         THEN [ret |-> FALSE, id |-> index[item_id].import_id, depth |-> depth + 1,
               visited |-> visited \cup {item_id}, result |-> NoneResult]
         ELSE [ret |-> TRUE, id |-> item_id, depth |-> depth,
               visited |-> visited \cup {item_id},
               result |-> [found |-> TRUE, id |-> item_id]]
    ELSE [ret |-> TRUE, id |-> item_id, depth |-> depth,
          visited |-> visited \cup {item_id}, result |-> NoneResult]

ResolveCall(index, item_id, depth, visited) ==
    IF depth > MAX_DEPTH
    THEN [ret |-> TRUE, id |-> item_id, depth |-> depth, visited |-> visited,
          result |-> NoneResult]
    ELSE IF item_id \in visited
    THEN [ret |-> TRUE, id |-> item_id, depth |-> depth, visited |-> visited,
          result |-> NoneResult]
    ELSE IF item_id \in DOMAIN index
    THEN IF index[item_id].inner = "use" /\ index[item_id].import_id # NoId
         THEN [ret |-> FALSE, id |-> index[item_id].import_id, depth |-> depth + 1,
               visited |-> visited \cup {item_id}, result |-> NoneResult]
         ELSE [ret |-> TRUE, id |-> item_id, depth |-> depth,
               visited |-> visited \cup {item_id},
               result |-> [found |-> TRUE, id |-> item_id]]
    ELSE [ret |-> TRUE, id |-> item_id, depth |-> depth,
          visited |-> visited \cup {item_id}, result |-> NoneResult]

\* The whole recursion, as group_by_module calls it.
RECURSIVE resolve_reexport_chain(_, _, _, _)
resolve_reexport_chain(item_id, index, depth, visited) ==
    LET c == ResolveCall(index, item_id, depth, visited)
    IN  IF c.ret THEN c.result
        ELSE resolve_reexport_chain(c.id, index, c.depth, c.visited)

(***************************************************************************)
(* Module assigner                                                         *)
(*                                                                         *)
(* crate_data = [root, index : id -> Item,                                 *)
(*               paths : id -> [path, crate_id, kind], external_crates]    *)
(* A bucket map is a function from module path strings to sequences of     *)
(* [id, item] pairs. `order` is the order in which the HashMap             *)
(* crate_data.index is iterated: a sequence holding each key once.         *)
(***************************************************************************)

build_path_map(crate_data) == [id \in DOMAIN crate_data.paths |-> crate_data.paths[id].path]

\* modules.entry(key).or_default().push(entry)
Push(modules, key, entry) ==
    IF key \in DOMAIN modules
    THEN [modules EXCEPT ![key] = Append(@, entry)]
    ELSE [k \in DOMAIN modules \cup {key} |->
             IF k = key THEN <<entry>> ELSE modules[k]]

Entry(crate_data, id) == [id |-> id, item |-> crate_data.index[id]]

\* first loop of group_by_module: one item of the index
AssignByPath(crate_data, item_paths, include_private, id, modules) ==
    LET item == crate_data.index[id]
    IN  IF id = crate_data.root THEN modules
        ELSE IF ~include_private /\ ~is_public(item) THEN modules
        ELSE IF ~can_format_item(item) THEN modules
        ELSE IF id \notin DOMAIN item_paths THEN modules
        ELSE LET path == item_paths[id]
             IN  IF Len(path) > 1
                 THEN Push(modules, join(SubSeq(path, 1, Len(path) - 1), ColonColon),
                           Entry(crate_data, id))
                 ELSE IF Len(path) = 1
                 THEN Push(modules, path[1], Entry(crate_data, id))
                 ELSE modules

RECURSIVE AssignAll(_, _, _, _, _)
AssignAll(crate_data, item_paths, include_private, order, modules) ==
    IF order = <<>> THEN modules
    ELSE AssignAll(crate_data, item_paths, include_private, Tail(order),
                   AssignByPath(crate_data, item_paths, include_private, Head(order), modules))

\* a glob re-export that copies nothing
CopyGlobItemsNone(crate_data, include_private, module_path, ids, modules) == modules

\* the items a glob re-export copies from the imported module, in its order
RECURSIVE CopyGlobItems(_, _, _, _, _)
CopyGlobItems(crate_data, include_private, module_path, ids, modules) ==
    IF ids = <<>> THEN modules
    ELSE LET iid == Head(ids)
             skip == \/ iid \notin DOMAIN crate_data.index
                     \/ (~include_private /\ ~is_public(crate_data.index[iid]))
                     \/ ~can_format_item(crate_data.index[iid])
                     \/ crate_data.index[iid].inner = "use"
                     \/ crate_data.index[iid].inner = "module"
         IN  CopyGlobItems(crate_data, include_private, module_path, Tail(ids),
                           IF skip THEN modules
                           ELSE Push(modules, module_path, Entry(crate_data, iid)))

\* a member that records nothing
AssignUseNoEntry(crate_data, item_paths, include_private, module_id, module_path, item_id, modules) == modules

\* second loop of group_by_module: one member of one module
AssignUse(crate_data, item_paths, include_private, module_id, module_path, item_id, modules) ==
    IF item_id \notin DOMAIN crate_data.index THEN modules
    ELSE LET item == crate_data.index[item_id]
         IN  IF item.inner # "use" THEN modules
             ELSE IF ~include_private /\ ~is_public(item) THEN modules
             ELSE LET withUse == Push(modules, module_path, Entry(crate_data, item_id))
                  IN  IF ~item.is_glob \/ item.import_id = NoId THEN withUse
                      ELSE IF item.import_id = module_id THEN withUse
                      ELSE LET r == resolve_reexport_chain(item.import_id, crate_data.index, 0, {})
                           IN  IF ~r.found THEN withUse
                               ELSE IF crate_data.index[r.id].inner # "module" THEN withUse
                               ELSE IF /\ r.id \in DOMAIN item_paths
                                       /\ starts_with(module_path,
                                              join(item_paths[r.id], ColonColon) \o ColonColon)
                               THEN withUse
                               ELSE CopyGlobItems(crate_data, include_private, module_path,
                                                  crate_data.index[r.id].items, withUse)

RECURSIVE AssignMembers(_, _, _, _, _, _, _)
AssignMembers(crate_data, item_paths, include_private, module_id, module_path, ids, modules) ==
    IF ids = <<>> THEN modules
    ELSE AssignMembers(crate_data, item_paths, include_private, module_id, module_path,
                       Tail(ids),
                       AssignUse(crate_data, item_paths, include_private, module_id,
                                 module_path, Head(ids), modules))

RECURSIVE AssignReexports(_, _, _, _, _)
AssignReexports(crate_data, item_paths, include_private, order, modules) ==
    IF order = <<>> THEN modules
    ELSE LET mid == Head(order)
             m == crate_data.index[mid]
         IN  AssignReexports(crate_data, item_paths, include_private, Tail(order),
                 IF m.inner = "module" /\ mid \in DOMAIN item_paths
                 THEN AssignMembers(crate_data, item_paths, include_private, mid,
                                    join(item_paths[mid], ColonColon), m.items, modules)
                 ELSE modules)

\* name.as_deref().unwrap_or("")
NameOrEmpty(entry) == unwrap_or(entry.item.name, <<>>)

\* Vec::sort_by is stable: an entry goes after every entry that is not greater
RECURSIVE InsertSorted(_, _)
InsertSorted(sorted, e) ==
    IF sorted = <<>> THEN <<e>>
    ELSE IF StrLess(NameOrEmpty(e), NameOrEmpty(Head(sorted))) THEN <<e>> \o sorted
    ELSE <<Head(sorted)>> \o InsertSorted(Tail(sorted), e)

RECURSIVE SortByName(_)
SortByName(items) ==
    IF items = <<>> THEN <<>>
    ELSE InsertSorted(SortByName(SubSeq(items, 1, Len(items) - 1)), items[Len(items)])

\* Vec::dedup_by(|a, b| a.0 == b.0): drops an entry equal in id to the one kept before it
RECURSIVE DedupById(_)
DedupById(items) ==
    IF Len(items) <= 1 THEN items
    ELSE LET front == DedupById(SubSeq(items, 1, Len(items) - 1))
         IN  IF front[Len(front)].id = items[Len(items)].id THEN front
             ELSE Append(front, items[Len(items)])

SortAndDedup(modules) == [k \in DOMAIN modules |-> DedupById(SortByName(modules[k]))]

EmptyModules == [k \in {} |-> <<>>]

group_by_module(crate_data, item_paths, include_private, order) ==
    SortAndDedup(
        AssignReexports(crate_data, item_paths, include_private, order,
            AssignAll(crate_data, item_paths, include_private, order, EmptyModules)))


(***************************************************************************)
(* Link resolver                                                           *)
(*                                                                         *)
(* tls = the thread-local storage [BASE_PATH, WORKSPACE_CRATES,            *)
(* SIDEBAR_ROOT_LINK]; a reference is [path, id]; a span is the file name  *)
(* of the item's source location, or NoStr.                                *)
(***************************************************************************)

Std == <<"s", "t", "d">>
Core == <<"c", "o", "r", "e">>
Alloc == <<"a", "l", "l", "o", "c">>
DollarCrate == <<"$", "c", "r", "a", "t", "e">>
Unknown == <<"u", "n", "k", "n", "o", "w", "n">>
SrcDir == <<"/", "s", "r", "c", "/">>
DotRs == <<".", "r", "s">>
LibName == <<"l", "i", "b">>
MainName == <<"m", "a", "i", "n">>
ErrorSuffix == <<"E", "r", "r", "o", "r">>
OptionName == <<"O", "p", "t", "i", "o", "n">>
ResultName == <<"R", "e", "s", "u", "l", "t">>
CoreFmtResult == <<"c", "o", "r", "e", ":", ":", "f", "m", "t", ":", ":", "R", "e", "s", "u", "l", "t">>
StdFmtResult == <<"s", "t", "d", ":", ":", "f", "m", "t", ":", ":", "R", "e", "s", "u", "l", "t">>
CoreResultResult == <<"c", "o", "r", "e", ":", ":", "r", "e", "s", "u", "l", "t", ":", ":", "R", "e", "s", "u", "l", "t">>
CoreOptionOption == <<"c", "o", "r", "e", ":", ":", "o", "p", "t", "i", "o", "n", ":", ":", "O", "p", "t", "i", "o", "n">>
StdResultUrl == <<"h", "t", "t", "p", "s", ":", "/", "/", "d", "o", "c", ".", "r", "u", "s", "t", "-", "l", "a", "n", "g", ".", "o", "r", "g", "/", "s", "t", "d", "/", "r", "e", "s", "u", "l", "t", "/", "e", "n", "u", "m", ".", "R", "e", "s", "u", "l", "t", ".", "h", "t", "m", "l">>
StdOptionUrl == <<"h", "t", "t", "p", "s", ":", "/", "/", "d", "o", "c", ".", "r", "u", "s", "t", "-", "l", "a", "n", "g", ".", "o", "r", "g", "/", "s", "t", "d", "/", "o", "p", "t", "i", "o", "n", "/", "e", "n", "u", "m", ".", "O", "p", "t", "i", "o", "n", ".", "h", "t", "m", "l">>
DocRustLang == <<"h", "t", "t", "p", "s", ":", "/", "/", "d", "o", "c", ".", "r", "u", "s", "t", "-", "l", "a", "n", "g", ".", "o", "r", "g", "/">>
DocsRs == <<"h", "t", "t", "p", "s", ":", "/", "/", "d", "o", "c", "s", ".", "r", "s", "/">>
Latest == <<"/", "l", "a", "t", "e", "s", "t", "/">>
DotHtml == <<".", "h", "t", "m", "l">>
Dot == <<".">>

internal_modules == {<<"b", "o", "u", "n", "d", "e", "d">>, <<"u", "n", "b", "o", "u", "n", "d", "e", "d">>, <<"i", "n", "n", "e", "r">>, <<"p", "r", "i", "v", "a", "t", "e">>, <<"i", "m", "p">>}

\* the last-resort table of common std names
StdFallback ==
    [n \in {<<"S", "t", "r", "i", "n", "g">>, <<"V", "e", "c">>, <<"O", "p", "t", "i", "o", "n">>, <<"R", "e", "s", "u", "l", "t">>, <<"B", "o", "x">>, <<"R", "c">>, <<"A", "r", "c">>,
            <<"H", "a", "s", "h", "M", "a", "p">>, <<"H", "a", "s", "h", "S", "e", "t">>, <<"B", "T", "r", "e", "e", "M", "a", "p">>, <<"B", "T", "r", "e", "e", "S", "e", "t">>, <<"M", "u", "t", "e", "x">>,
            <<"R", "w", "L", "o", "c", "k">>, <<"C", "e", "l", "l">>, <<"R", "e", "f", "C", "e", "l", "l">>, <<"P", "a", "t", "h">>, <<"P", "a", "t", "h", "B", "u", "f">>} |->
        CASE n = <<"S", "t", "r", "i", "n", "g">> -> <<"h", "t", "t", "p", "s", ":", "/", "/", "d", "o", "c", ".", "r", "u", "s", "t", "-", "l", "a", "n", "g", ".", "o", "r", "g", "/", "s", "t", "d", "/", "s", "t", "r", "i", "n", "g", "/", "s", "t", "r", "u", "c", "t", ".", "S", "t", "r", "i", "n", "g", ".", "h", "t", "m", "l">>
          [] n = <<"V", "e", "c">> -> <<"h", "t", "t", "p", "s", ":", "/", "/", "d", "o", "c", ".", "r", "u", "s", "t", "-", "l", "a", "n", "g", ".", "o", "r", "g", "/", "s", "t", "d", "/", "v", "e", "c", "/", "s", "t", "r", "u", "c", "t", ".", "V", "e", "c", ".", "h", "t", "m", "l">>
          [] n = <<"O", "p", "t", "i", "o", "n">> -> <<"h", "t", "t", "p", "s", ":", "/", "/", "d", "o", "c", ".", "r", "u", "s", "t", "-", "l", "a", "n", "g", ".", "o", "r", "g", "/", "s", "t", "d", "/", "o", "p", "t", "i", "o", "n", "/", "e", "n", "u", "m", ".", "O", "p", "t", "i", "o", "n", ".", "h", "t", "m", "l">>
          [] n = <<"R", "e", "s", "u", "l", "t">> -> <<"h", "t", "t", "p", "s", ":", "/", "/", "d", "o", "c", ".", "r", "u", "s", "t", "-", "l", "a", "n", "g", ".", "o", "r", "g", "/", "s", "t", "d", "/", "r", "e", "s", "u", "l", "t", "/", "e", "n", "u", "m", ".", "R", "e", "s", "u", "l", "t", ".", "h", "t", "m", "l">>
          [] n = <<"B", "o", "x">> -> <<"h", "t", "t", "p", "s", ":", "/", "/", "d", "o", "c", ".", "r", "u", "s", "t", "-", "l", "a", "n", "g", ".", "o", "r", "g", "/", "s", "t", "d", "/", "b", "o", "x", "e", "d", "/", "s", "t", "r", "u", "c", "t", ".", "B", "o", "x", ".", "h", "t", "m", "l">>
          [] n = <<"R", "c">> -> <<"h", "t", "t", "p", "s", ":", "/", "/", "d", "o", "c", ".", "r", "u", "s", "t", "-", "l", "a", "n", "g", ".", "o", "r", "g", "/", "s", "t", "d", "/", "r", "c", "/", "s", "t", "r", "u", "c", "t", ".", "R", "c", ".", "h", "t", "m", "l">>
          [] n = <<"A", "r", "c">> -> <<"h", "t", "t", "p", "s", ":", "/", "/", "d", "o", "c", ".", "r", "u", "s", "t", "-", "l", "a", "n", "g", ".", "o", "r", "g", "/", "s", "t", "d", "/", "s", "y", "n", "c", "/", "s", "t", "r", "u", "c", "t", ".", "A", "r", "c", ".", "h", "t", "m", "l">>
          [] n = <<"H", "a", "s", "h", "M", "a", "p">> -> <<"h", "t", "t", "p", "s", ":", "/", "/", "d", "o", "c", ".", "r", "u", "s", "t", "-", "l", "a", "n", "g", ".", "o", "r", "g", "/", "s", "t", "d", "/", "c", "o", "l", "l", "e", "c", "t", "i", "o", "n", "s", "/", "s", "t", "r", "u", "c", "t", ".", "H", "a", "s", "h", "M", "a", "p", ".", "h", "t", "m", "l">>
          [] n = <<"H", "a", "s", "h", "S", "e", "t">> -> <<"h", "t", "t", "p", "s", ":", "/", "/", "d", "o", "c", ".", "r", "u", "s", "t", "-", "l", "a", "n", "g", ".", "o", "r", "g", "/", "s", "t", "d", "/", "c", "o", "l", "l", "e", "c", "t", "i", "o", "n", "s", "/", "s", "t", "r", "u", "c", "t", ".", "H", "a", "s", "h", "S", "e", "t", ".", "h", "t", "m", "l">>
          [] n = <<"B", "T", "r", "e", "e", "M", "a", "p">> -> <<"h", "t", "t", "p", "s", ":", "/", "/", "d", "o", "c", ".", "r", "u", "s", "t", "-", "l", "a", "n", "g", ".", "o", "r", "g", "/", "s", "t", "d", "/", "c", "o", "l", "l", "e", "c", "t", "i", "o", "n", "s", "/", "s", "t", "r", "u", "c", "t", ".", "B", "T", "r", "e", "e", "M", "a", "p", ".", "h", "t", "m", "l">>
          [] n = <<"B", "T", "r", "e", "e", "S", "e", "t">> -> <<"h", "t", "t", "p", "s", ":", "/", "/", "d", "o", "c", ".", "r", "u", "s", "t", "-", "l", "a", "n", "g", ".", "o", "r", "g", "/", "s", "t", "d", "/", "c", "o", "l", "l", "e", "c", "t", "i", "o", "n", "s", "/", "s", "t", "r", "u", "c", "t", ".", "B", "T", "r", "e", "e", "S", "e", "t", ".", "h", "t", "m", "l">>
          [] n = <<"M", "u", "t", "e", "x">> -> <<"h", "t", "t", "p", "s", ":", "/", "/", "d", "o", "c", ".", "r", "u", "s", "t", "-", "l", "a", "n", "g", ".", "o", "r", "g", "/", "s", "t", "d", "/", "s", "y", "n", "c", "/", "s", "t", "r", "u", "c", "t", ".", "M", "u", "t", "e", "x", ".", "h", "t", "m", "l">>
          [] n = <<"R", "w", "L", "o", "c", "k">> -> <<"h", "t", "t", "p", "s", ":", "/", "/", "d", "o", "c", ".", "r", "u", "s", "t", "-", "l", "a", "n", "g", ".", "o", "r", "g", "/", "s", "t", "d", "/", "s", "y", "n", "c", "/", "s", "t", "r", "u", "c", "t", ".", "R", "w", "L", "o", "c", "k", ".", "h", "t", "m", "l">>
          [] n = <<"C", "e", "l", "l">> -> <<"h", "t", "t", "p", "s", ":", "/", "/", "d", "o", "c", ".", "r", "u", "s", "t", "-", "l", "a", "n", "g", ".", "o", "r", "g", "/", "s", "t", "d", "/", "c", "e", "l", "l", "/", "s", "t", "r", "u", "c", "t", ".", "C", "e", "l", "l", ".", "h", "t", "m", "l">>
          [] n = <<"R", "e", "f", "C", "e", "l", "l">> -> <<"h", "t", "t", "p", "s", ":", "/", "/", "d", "o", "c", ".", "r", "u", "s", "t", "-", "l", "a", "n", "g", ".", "o", "r", "g", "/", "s", "t", "d", "/", "c", "e", "l", "l", "/", "s", "t", "r", "u", "c", "t", ".", "R", "e", "f", "C", "e", "l", "l", ".", "h", "t", "m", "l">>
          [] n = <<"P", "a", "t", "h">> -> <<"h", "t", "t", "p", "s", ":", "/", "/", "d", "o", "c", ".", "r", "u", "s", "t", "-", "l", "a", "n", "g", ".", "o", "r", "g", "/", "s", "t", "d", "/", "p", "a", "t", "h", "/", "s", "t", "r", "u", "c", "t", ".", "P", "a", "t", "h", ".", "h", "t", "m", "l">>
          [] n = <<"P", "a", "t", "h", "B", "u", "f">> -> <<"h", "t", "t", "p", "s", ":", "/", "/", "d", "o", "c", ".", "r", "u", "s", "t", "-", "l", "a", "n", "g", ".", "o", "r", "g", "/", "s", "t", "d", "/", "p", "a", "t", "h", "/", "s", "t", "r", "u", "c", "t", ".", "P", "a", "t", "h", "B", "u", "f", ".", "h", "t", "m", "l">>]

get_item_prefix(item) ==
    CASE item.inner = "function" -> <<"f", "n", ".">>
      [] item.inner = "struct" -> <<"s", "t", "r", "u", "c", "t", ".">>
      [] item.inner = "enum" -> <<"e", "n", "u", "m", ".">>
      [] item.inner = "trait" -> <<"t", "r", "a", "i", "t", ".">>
      [] item.inner = "constant" -> <<"c", "o", "n", "s", "t", "a", "n", "t", ".">>
      [] item.inner = "type_alias" -> <<"t", "y", "p", "e", ".">>
      [] OTHER -> <<>>

\* the kind tag of a path table entry (rustdoc_types::ItemKind), default struct
KindTag(kind) ==
    CASE kind = "struct" -> <<"s", "t", "r", "u", "c", "t">>
      [] kind = "enum" -> <<"e", "n", "u", "m">>
      [] kind = "trait" -> <<"t", "r", "a", "i", "t">>
      [] kind = "function" -> <<"f", "n">>
      [] kind = "type_alias" -> <<"t", "y", "p", "e">>
      [] kind = "constant" -> <<"c", "o", "n", "s", "t", "a", "n", "t">>
      [] OTHER -> <<"s", "t", "r", "u", "c", "t">>

\* str::rfind: the start (1-based) of the last occurrence, 0 when there is none
rfind(s, p) ==
    LET hits == {i \in 1..(Len(s) - Len(p) + 1) : SubSeq(s, i, i + Len(p) - 1) = p}
    IN  IF hits = {} THEN 0 ELSE CHOOSE i \in hits : \A j \in hits : j <= i

\* the module path read from a span file name: .../src/<module>.rs
SpanModulePath(span) ==
    IF ~span.some THEN NoStr
    ELSE LET src_idx == rfind(span.v, SrcDir)
         IN  IF src_idx = 0 THEN NoStr
             ELSE LET after_src == Drop(span.v, src_idx + 4)
                      rs_idx == rfind(after_src, DotRs)
                  IN  IF rs_idx = 0 THEN NoStr
                      ELSE LET module_path == SubSeq(after_src, 1, rs_idx - 1)
                           IN  IF module_path = LibName \/ module_path = MainName
                               THEN Some(<<>>)
                               ELSE Some(module_path)

\* module_parts.retain(|part| !internal_modules.contains(part))
RECURSIVE Retain(_)
Retain(parts) ==
    IF parts = <<>> THEN <<>>
    ELSE IF Head(parts) \in internal_modules THEN Retain(Tail(parts))
    ELSE <<Head(parts)>> \o Retain(Tail(parts))

\* path_parts[1..len-1] without the internal modules, joined by "/"
FilteredModulePath(path_parts) ==
    join(Retain(SubSeq(path_parts, 2, Len(path_parts) - 1)), Slash)

\* c.replace('-', "_")
Normalize(name) == replace(name, Hyphen, Underscore)

\* a registered name compared as it was registered
NormalizeRegisteredNot(c) == c

\* normalized_c of a registered workspace crate: line 2141
NormalizeRegistered(c) == replace(c, Hyphen, Underscore)

is_workspace_crate(tls, real_crate_name) ==
    \E i \in 1..Len(tls.WORKSPACE_CRATES) :
        NormalizeRegistered(tls.WORKSPACE_CRATES[i]) = Normalize(real_crate_name)

\* BASE_PATH.with(|bp| bp.borrow().clone())
BasePrefix(tls) == tls.BASE_PATH

\* the local branch (is_local and the item is in the index)
LocalLink(tls, full_path, item_id, crate_data) ==
    LET item == crate_data.index[item_id]
        rootOk == /\ crate_data.root \in DOMAIN crate_data.index
                  /\ crate_data.index[crate_data.root].name.some
        prefix == get_item_prefix(item)
        target_module_path ==
            IF item_id \in DOMAIN crate_data.paths
            THEN LET pc == crate_data.paths[item_id].path
                 IN  IF Len(pc) > 2 THEN Some(join(SubSeq(pc, 2, Len(pc) - 1), Slash))
                     ELSE Some(<<>>)
            ELSE SpanModulePath(item.span)
        path_segments == split(full_path, ColonColon)
        type_name == path_segments[Len(path_segments)]
        crate_name == path_segments[1]
    IN  IF ~rootOk THEN NoStr
        ELSE IF target_module_path.some /\ target_module_path.v # <<>>
        THEN Some(BasePrefix(tls) \o Slash \o crate_name \o Slash \o target_module_path.v
                  \o Slash \o prefix \o type_name)
        ELSE Some(BasePrefix(tls) \o Slash \o crate_name \o Slash \o prefix \o type_name)

\* the branch for paths of two or more segments that are not local
ExternalLink(tls, full_path, item_id, crate_data) ==
    LET path_parts == split(full_path, ColonColon)
        crate_name == path_parts[1]
        type_name == path_parts[Len(path_parts)]
        module_path == FilteredModulePath(path_parts)
        inPaths == item_id \in DOMAIN crate_data.paths
        real_crate_name ==
            IF inPaths /\ crate_data.paths[item_id].crate_id # 0
            THEN IF crate_data.paths[item_id].crate_id \in DOMAIN crate_data.external_crates
                 THEN crate_data.external_crates[crate_data.paths[item_id].crate_id]
                 ELSE crate_name
            ELSE crate_name
        kind == IF inPaths THEN KindTag(crate_data.paths[item_id].kind) ELSE <<"s", "t", "r", "u", "c", "t">>
    IN  IF crate_name \in {Std, Core, Alloc}
        THEN IF full_path = CoreFmtResult \/ full_path = StdFmtResult THEN Some(StdResultUrl)
             ELSE IF full_path = CoreResultResult THEN Some(StdResultUrl)
             ELSE IF full_path = CoreOptionOption THEN Some(StdOptionUrl)
             ELSE Some(DocRustLang \o crate_name \o Slash \o module_path \o Slash
                       \o (IF \/ ends_with(type_name, ErrorSuffix)
                              \/ type_name = OptionName \/ type_name = ResultName
                           THEN <<"e", "n", "u", "m">> ELSE <<"s", "t", "r", "u", "c", "t">>)
                       \o Dot \o type_name \o DotHtml)
        ELSE IF is_workspace_crate(tls, real_crate_name)
        THEN IF module_path = <<>>
             THEN Some(BasePrefix(tls) \o Slash \o real_crate_name \o Slash
                       \o kind \o Dot \o type_name)
             ELSE Some(BasePrefix(tls) \o Slash \o real_crate_name \o Slash \o module_path
                       \o Slash \o kind \o Dot \o type_name)
        ELSE IF module_path = <<>>
        THEN Some(DocsRs \o real_crate_name \o Latest \o real_crate_name \o Slash
                  \o kind \o Dot \o type_name \o DotHtml)
        ELSE Some(DocsRs \o real_crate_name \o Latest \o real_crate_name \o Slash
                  \o module_path \o Slash \o kind \o Dot \o type_name \o DotHtml)

LINK_MAX_DEPTH == 10

RECURSIVE generate_type_link_depth(_, _, _, _, _)
generate_type_link_depth(tls, full_path_arg, item_id, crate_data, depth) ==
    IF depth >= LINK_MAX_DEPTH THEN NoStr
    ELSE
    LET inPaths == item_id \in DOMAIN crate_data.paths
        full_path ==
            IF depth = 0
            THEN IF inPaths THEN join(crate_data.paths[item_id].path, ColonColon)
                 ELSE IF starts_with(full_path_arg, DollarCrate)
                 THEN replace(full_path_arg, DollarCrate, Unknown)
                 ELSE full_path_arg
            ELSE full_path_arg
        is_local == IF inPaths THEN crate_data.paths[item_id].crate_id = 0
                    ELSE item_id \in DOMAIN crate_data.index
        path_parts == split(full_path, ColonColon)
    IN  IF is_local /\ item_id \in DOMAIN crate_data.index
        THEN LocalLink(tls, full_path, item_id, crate_data)
        ELSE IF Len(path_parts) >= 2
        THEN ExternalLink(tls, full_path, item_id, crate_data)
        ELSE IF inPaths /\ join(crate_data.paths[item_id].path, ColonColon) # full_path
        THEN generate_type_link_depth(tls, join(crate_data.paths[item_id].path, ColonColon),
                                      item_id, crate_data, depth + 1)
        ELSE IF path_parts[1] \in DOMAIN StdFallback THEN Some(StdFallback[path_parts[1]])
        ELSE NoStr

generate_type_link(tls, full_path, item_id, crate_data) ==
    generate_type_link_depth(tls, full_path, item_id, crate_data, 0)


(***************************************************************************)
(* Pages and navigation keys of a multi-file conversion                    *)
(***************************************************************************)

IndexMd == <<"i", "n", "d", "e", "x", ".", "m", "d">>
SlashIndexMd == <<"/", "i", "n", "d", "e", "x", ".", "m", "d">>
DotMd == <<".", "m", "d">>

\* lines 2578-2583, 2844-2849, 2905-2910
base_path_for_sidebar(base_path) ==
    unwrap_or(or_else(or_else(strip_prefix(base_path, SlashDocsSlash),
                              strip_prefix(base_path, SlashDocs)),
                      strip_prefix(base_path, Slash)),
              base_path)

\* the displayed_sidebar of the pages of a module: lines 2850-2855, 2911-2916
PageSidebarKey(tls, crate_name, module_name) ==
    IF module_name = crate_name
    THEN replace(base_path_for_sidebar(tls.BASE_PATH) \o Slash \o crate_name, Slash, Underscore)
    ELSE replace(base_path_for_sidebar(tls.BASE_PATH) \o Slash
                    \o replace(module_name, ColonColon, Slash),
                 Slash, Underscore)

\* a page: what it is, the bucket it was made from, its displayed_sidebar
Page(kind, module_name, key) == [kind |-> kind, module |-> module_name, displayed_sidebar |-> key]

\* HashMap::insert
Insert(map, key, value) ==
    [k \in DOMAIN map \cup {key} |-> IF k = key THEN value ELSE map[k]]

format_item_with_path(id, item, item_paths) ==
    id \in DOMAIN item_paths /\ item.name.some /\ can_format_item(item)

RECURSIVE generate_individual_pages(_, _, _, _, _, _, _)
generate_individual_pages(items, path_prefix, files, item_paths, crate_name, module_name, tls) ==
    IF items = <<>> THEN files
    ELSE LET id == Head(items).id
             item == Head(items).item
             file_path == path_prefix \o get_item_prefix(item) \o item.name.v \o DotMd
             emitted == /\ item.inner # "use"
                        /\ item.name.some
                        /\ item.inner # "module"
                        /\ format_item_with_path(id, item, item_paths)
         IN  generate_individual_pages(Tail(items), path_prefix,
                 IF emitted
                 THEN Insert(files, file_path,
                             Page("item", module_name,
                                  Some(PageSidebarKey(tls, crate_name, module_name))))
                 ELSE files,
                 item_paths, crate_name, module_name, tls)

\* lines 124-127
module_filename(module_name, crate_name) ==
    replace(unwrap_or(strip_prefix(module_name, crate_name \o ColonColon), module_name),
            ColonColon, Slash)

\* the body of the loop over the buckets: lines 116-152
ModulePages(module_name, modules, files, item_paths, crate_name, tls) ==
    IF module_name = crate_name
    THEN generate_individual_pages(modules[module_name], <<>>, files, item_paths,
                                   crate_name, crate_name, tls)
    ELSE LET filename == module_filename(module_name, crate_name)
             item_prefix == IF filename = <<>> THEN <<>> ELSE filename \o Slash
         IN  generate_individual_pages(modules[module_name], item_prefix,
                 Insert(files, filename \o SlashIndexMd,
                        Page("overview", module_name,
                             Some(PageSidebarKey(tls, crate_name, module_name)))),
                 item_paths, crate_name, module_name, tls)

RECURSIVE AllModulePages(_, _, _, _, _, _)
AllModulePages(key_order, modules, files, item_paths, crate_name, tls) ==
    IF key_order = <<>> THEN files
    ELSE AllModulePages(Tail(key_order), modules,
                        ModulePages(Head(key_order), modules, files, item_paths, crate_name, tls),
                        item_paths, crate_name, tls)

\* index.md: lines 95-113; generate_crate_index writes no displayed_sidebar
IndexPage(modules, crate_name, tls) ==
    IF crate_name \in DOMAIN modules
    THEN Page("index", crate_name, Some(PageSidebarKey(tls, crate_name, crate_name)))
    ELSE Page("index", crate_name, NoStr)

\* the files of convert_to_markdown_multifile; key_order is the order in which
\* the HashMap of buckets is iterated
Files(modules, key_order, item_paths, crate_name, tls) ==
    AllModulePages(key_order, modules,
                   Insert([k \in {} |-> NoStr], IndexMd, IndexPage(modules, crate_name, tls)),
                   item_paths, crate_name, tls)

\* lines 3221-3229
sidebar_prefix(base_path) ==
    IF base_path = SlashDocs \/ base_path = Docs THEN <<>>
    ELSE IF starts_with(base_path, SlashDocsSlash) THEN strip_prefix(base_path, SlashDocsSlash).v
    ELSE IF starts_with(base_path, DocsSlash) THEN strip_prefix(base_path, DocsSlash).v
    ELSE base_path

\* the key of all_sidebars for a bucket: lines 3243-3247, 3268-3273
SidebarPath(tls, crate_name, module_key) ==
    LET prefix == sidebar_prefix(tls.BASE_PATH)
        path == IF module_key = crate_name THEN crate_name
                ELSE replace(module_key, ColonColon, Slash)
    IN  IF prefix = <<>> THEN path ELSE prefix \o Slash \o path

\* the keys of all_sidebars
SidebarPaths(tls, crate_name, modules) ==
    {SidebarPath(tls, crate_name, k) : k \in DOMAIN modules \cup {crate_name}}

\* line 3816
sidebar_key(path) == replace(path, Slash, Underscore)

(***************************************************************************)
(* Sidebars (SidebarItem values)                                           *)
(*                                                                         *)
(* Text is a sequence of one-character strings; a longer string stands for *)
(* a literal of the source that holds no quote, bracket, brace or newline  *)
(* wherever the text it lands in is parsed again.                          *)
(***************************************************************************)

NoProps == NoStr

Doc(id, label, custom_props) ==
    [type |-> "doc", id |-> id, label |-> label, custom_props |-> custom_props,
     items |-> <<>>, collapsed |-> FALSE]

Link(href, label, custom_props) ==
    [type |-> "link", id |-> href, label |-> Some(label), custom_props |-> custom_props,
     items |-> <<>>, collapsed |-> FALSE]

Category(label, items, collapsed) ==
    [type |-> "category", id |-> <<>>, label |-> Some(label), custom_props |-> NoProps,
     items |-> items, collapsed |-> collapsed]

SlashIndex == <<"/", "i", "n", "d", "e", "x">>
RustMod == <<"rust-mod">>
GoBack == <<"<- Go back">>
BackLinkClass == <<"rust-sidebar-back-link">>
Overview == <<"Overview">>

\* lines 3324-3328, 3345-3349
TitleProps(crate_name, crate_version) ==
    <<"{", " ", "rustCrateTitle: true", ",", " ", "crateName: ", "'">> \o crate_name
        \o <<"'", ",", " ", "version: ", "'">> \o unwrap_or(crate_version, <<>>)
        \o <<"'", " ", "}">>

\* format!("{}/...", sidebar_prefix, ...) unless the prefix is empty
Prefixed(prefix, path) == IF prefix = <<>> THEN path ELSE prefix \o Slash \o path

\* the crate title: lines 3314-3329, 3335-3350
TitleDoc(crate_name, prefix, crate_version) ==
    Doc(Prefixed(prefix, crate_name \o SlashIndex), Some(crate_name),
        Some(TitleProps(crate_name, crate_version)))

\* lines 3374-3386
type_name(item) ==
    CASE item.inner = "module" -> "Modules"
      [] item.inner = "struct" -> "Structs"
      [] item.inner = "enum" -> "Enums"
      [] item.inner = "function" -> "Functions"
      [] item.inner = "trait" -> "Traits"
      [] item.inner = "constant" -> "Constants"
      [] item.inner = "type_alias" -> "Type Aliases"
      [] OTHER -> "none"

\* the kind categories in the opposite order
type_order_reversed ==
    <<"Statics", "Constants", "Type Aliases", "Functions", "Traits", "Enums", "Structs",
      "Proc Macros", "Macros", "Modules">>

type_order ==
    <<"Modules", "Macros", "Proc Macros", "Structs", "Enums", "Traits", "Functions",
      "Type Aliases", "Constants", "Statics">>

\* lines 3589-3606
RECURSIVE module_has_public_content(_, _)
module_has_public_content(item_ids, index) ==
    IF item_ids = <<>> THEN FALSE
    ELSE IF Head(item_ids) \in DOMAIN index /\ index[Head(item_ids)].inner # "use" THEN TRUE
    ELSE module_has_public_content(Tail(item_ids), index)

\* lines 3428-3442
class_of(prefix) ==
    CASE prefix = <<"s", "t", "r", "u", "c", "t", ".">> -> <<"rust-struct">>
      [] prefix = <<"e", "n", "u", "m", ".">> -> <<"rust-struct">>
      [] prefix = <<"t", "r", "a", "i", "t", ".">> -> <<"rust-trait">>
      [] prefix = <<"f", "n", ".">> -> <<"rust-fn">>
      [] prefix = <<"c", "o", "n", "s", "t", "a", "n", "t", ".">> -> <<"rust-constant">>
      [] prefix = <<"t", "y", "p", "e", ".">> -> <<"rust-type">>
      [] OTHER -> <<"rust-item">>

\* the entries of one category: lines 3400-3455
RECURSIVE category_items(_, _, _, _, _)
category_items(tname, module_items, module_path, prefix, crate_data) ==
    IF module_items = <<>> THEN <<>>
    ELSE LET item == Head(module_items).item
             rest == category_items(tname, Tail(module_items), module_path, prefix, crate_data)
             name == item.name.v
         IN  IF item.inner = "use" \/ type_name(item) # tname \/ ~item.name.some THEN rest
             ELSE IF tname = "Modules"
             THEN IF ~module_has_public_content(item.items, crate_data.index) THEN rest
                  ELSE <<Doc(Prefixed(prefix, module_path \o Slash \o name \o SlashIndex),
                             Some(name), Some(RustMod))>> \o rest
             ELSE <<Doc(Prefixed(prefix, module_path \o Slash \o get_item_prefix(item) \o name),
                        Some(name), Some(class_of(get_item_prefix(item))))>> \o rest

\* lines 3396-3467
RECURSIVE categories(_, _, _, _, _, _)
categories(types, module_items, module_path, prefix, crate_data, collapsed) ==
    IF types = <<>> THEN <<>>
    ELSE LET entries == category_items(Head(types), module_items, module_path, prefix,
                                       crate_data)
             rest == categories(Tail(types), module_items, module_path, prefix, crate_data,
                                collapsed)
         IN  IF entries = <<>> THEN rest
             ELSE <<Category(<<Head(types)>>, entries, collapsed)>> \o rest

\* key.matches("::").count()
count_colons(key) == Len(split(key, ColonColon)) - 1

\* key.rsplitn(2, "::").nth(1): what stands before the last "::"
parent_of(key) ==
    LET parts == split(key, ColonColon)
    IN  IF Len(parts) < 2 THEN NoStr
        ELSE Some(join(SubSeq(parts, 1, Len(parts) - 1), ColonColon))

\* a set of strings as the sequence sort() leaves it
RECURSIVE SortStrings(_)
SortStrings(S) ==
    IF S = {} THEN <<>>
    ELSE LET least == CHOOSE x \in S : \A y \in S : StrLeq(x, y)
         IN  <<least>> \o SortStrings(S \ {least})

\* lines 3482-3499
sibling_modules(module_key, modules, crate_name) ==
    LET parent == parent_of(module_key)
    IN  {key \in DOMAIN modules :
            IF parent.some
            THEN /\ parent_of(key).some
                 /\ parent_of(key).v = parent.v
                 /\ count_colons(key) = count_colons(module_key)
            ELSE /\ count_colons(key) = count_colons(module_key)
                 /\ key # crate_name}

\* lines 3506-3522
sibling_items(keys, prefix) ==
    [i \in 1..Len(keys) |->
        LET parts == split(keys[i], ColonColon)
        IN  Doc(Prefixed(prefix, replace(keys[i], ColonColon, Slash) \o SlashIndex),
                Some(parts[Len(parts)]), Some(RustMod))]

\* lines 3471-3530
siblings_category(module_key, modules, crate_name, prefix) ==
    LET keys == SortStrings(sibling_modules(module_key, modules, crate_name))
        label == IF parent_of(module_key).some
                 THEN <<"In ">> \o parent_of(module_key).v
                 ELSE <<"In crate ">> \o crate_name
    IN  IF keys = <<>> THEN <<>>
        ELSE <<Category(label, sibling_items(keys, prefix), FALSE)>>

\* crate_items.sort_by(label), stable
RECURSIVE InsertByLabel(_, _)
InsertByLabel(sorted, e) ==
    IF sorted = <<>> THEN <<e>>
    ELSE IF StrLess(unwrap_or(e.label, <<>>), unwrap_or(Head(sorted).label, <<>>))
    THEN <<e>> \o sorted
    ELSE <<Head(sorted)>> \o InsertByLabel(Tail(sorted), e)

RECURSIVE SortByLabel(_)
SortByLabel(items) ==
    IF items = <<>> THEN <<>>
    ELSE InsertByLabel(SortByLabel(SubSeq(items, 1, Len(items) - 1)), items[Len(items)])

\* lines 3533-3581
crates_category(tls, prefix) ==
    LET workspace_crates == tls.WORKSPACE_CRATES
        crate_items ==
            [i \in 1..Len(workspace_crates) |->
                Doc(Prefixed(prefix, replace(workspace_crates[i], Hyphen, Underscore)
                                        \o SlashIndex),
                    Some(workspace_crates[i]), Some(RustMod))]
    IN  IF Len(workspace_crates) > 1
        THEN <<Category(<<"Crates">>, SortByLabel(crate_items), FALSE)>>
        ELSE <<>>

\* lines 3282-3585
generate_sidebar_for_module(tls, crate_name, module_key, modules, crate_data, prefix, sidebarconfig_collapsed, is_root) ==
    LET module_items == IF module_key \in DOMAIN modules THEN modules[module_key] ELSE <<>>
        module_path == replace(module_key, ColonColon, Slash)
        title == TitleDoc(crate_name, prefix, crate_data.crate_version)
        head == IF is_root
                THEN (IF tls.SIDEBAR_ROOT_LINK.some
                      THEN <<Link(tls.SIDEBAR_ROOT_LINK.v, GoBack, Some(BackLinkClass))>>
                      ELSE <<>>) \o <<title>>
                ELSE <<title,
                       Doc(Prefixed(prefix, module_path \o SlashIndex), Some(Overview),
                           Some(RustMod))>>
    IN  head
        \o categories(type_order, module_items, module_path, prefix, crate_data,
                      sidebarconfig_collapsed)
        \o (IF is_root THEN crates_category(tls, prefix)
            ELSE siblings_category(module_key, modules, crate_name, prefix))

\* lines 3208-3275: the HashMap all_sidebars (two buckets never share a path:
\* the path is the prefix and the bucket key with "/" for "::")
all_sidebars(tls, crate_name, modules, crate_data, sidebarconfig_collapsed) ==
    LET prefix == sidebar_prefix(tls.BASE_PATH)
        keys == DOMAIN modules \cup {crate_name}
    IN  [path \in SidebarPaths(tls, crate_name, modules) |->
            LET module_key == CHOOSE k \in keys : SidebarPath(tls, crate_name, k) = path
            IN  generate_sidebar_for_module(tls, crate_name, module_key, modules, crate_data,
                                            prefix, sidebarconfig_collapsed,
                                            module_key = crate_name)]

(***************************************************************************)
(* The sidebar file text (sidebars_to_js, format_sidebar_item)             *)
(***************************************************************************)

NL == <<"\n">>
Quote == <<"'">>
Comma == <<",">>
Sep == <<",", " ">>
IndentStr(indent) == [i \in 1..indent |-> "  "]

RECURSIVE trim_end_matches(_, _)
trim_end_matches(s, suffix) ==
    IF suffix # <<>> /\ ends_with(s, suffix)
    THEN trim_end_matches(SubSeq(s, 1, Len(s) - Len(suffix)), suffix)
    ELSE s

\* ", customProps: {...}" or ", className: '...'": lines 3900-3908, 3920-3926
format_props(custom_props) ==
    IF ~custom_props.some THEN <<>>
    ELSE IF starts_with(custom_props.v, <<"{">>)
    THEN Sep \o <<"customProps: ">> \o custom_props.v
    ELSE Sep \o <<"className: ">> \o Quote \o custom_props.v \o Quote

\* lines 3883-3966
RECURSIVE format_sidebar_item(_, _)
RECURSIVE format_sidebar_items(_, _)
format_sidebar_item(item, indent) ==
    LET indent_str == IndentStr(indent)
    IN  CASE item.type = "doc" ->
               LET doc_id == replace(trim_end_matches(item.id, DotMd), DotMd, <<>>)
               IN  IF item.label.some \/ item.custom_props.some
                   THEN indent_str \o <<"{", " ", "type: ">> \o Quote \o <<"d", "o", "c">> \o Quote
                          \o Sep \o <<"id: ">> \o Quote \o doc_id \o Quote
                          \o (IF item.label.some
                              THEN Sep \o <<"label: ">> \o Quote \o item.label.v \o Quote
                              ELSE <<>>)
                          \o format_props(item.custom_props)
                          \o <<" ", "}", ",", "\n">>
                   ELSE indent_str \o Quote \o doc_id \o Quote \o Comma \o NL
          [] item.type = "link" ->
               indent_str \o <<"{", " ", "type: ">> \o Quote \o <<"l", "i", "n", "k">> \o Quote
                  \o Sep \o <<"href: ">> \o Quote \o item.id \o Quote
                  \o Sep \o <<"label: ">> \o Quote \o item.label.v \o Quote
                  \o format_props(item.custom_props)
                  \o <<" ", "}", ",", "\n">>
          [] item.type = "category" ->
               indent_str \o <<"{", "\n">>
                  \o indent_str \o <<"  ", "type: ">> \o Quote \o <<"c", "a", "t", "e", "g", "o", "r", "y">> \o Quote
                  \o Comma \o NL
                  \o indent_str \o <<"  ", "label: ">> \o Quote \o item.label.v \o Quote
                  \o Comma \o NL
                  \o indent_str
                  \o <<"  ", "collapsed: ", IF item.collapsed THEN "true" ELSE "false", ",", "\n">>
                  \o indent_str \o <<"  ", "items: ", "[", "\n">>
                  \o format_sidebar_items(item.items, indent + 2)
                  \o indent_str \o <<"  ", "]", ",", "\n">>
                  \o indent_str \o <<"}", ",", "\n">>

format_sidebar_items(items, indent) ==
    IF items = <<>> THEN <<>>
    ELSE format_sidebar_item(Head(items), indent) \o format_sidebar_items(Tail(items), indent)

\* the comment block sidebars_to_js starts the file with: lines 3781-3803
FileComment == <<"// This file is auto-generated by cargo-doc-md ... // }">>

\* "export const rustSidebars: Record<string, any[]> = {"
StartMarker == <<"export const rustSidebars: Record<string, any[]> = {">>

\* "};"
EndMarker == <<"}", ";">>

\* one entry of the object: lines 3813-3822
format_entry(path, items) ==
    <<"  ">> \o Quote \o sidebar_key(path) \o Quote \o <<":", " ", "[", "\n">>
       \o format_sidebar_items(items, 2)
       \o <<"  ", "]", ",", "\n">>

RECURSIVE format_entries(_, _)
format_entries(sorted_paths, sidebars) ==
    IF sorted_paths = <<>> THEN <<>>
    ELSE format_entry(Head(sorted_paths), sidebars[Head(sorted_paths)])
            \o format_entries(Tail(sorted_paths), sidebars)

\* lines 3829-3843
CompatExports(first_path) ==
    <<"// Main API documentation sidebar (for backward compatibility)", "\n",
      "export const rustApiDocumentation = rustSidebars", "[">> \o Quote
       \o sidebar_key(first_path) \o Quote
       \o <<"]", ";", "\n", "\n", "// Or use as a single category:", "\n",
            "export const rustApiCategory = ", "{", "\n",
            "  type: 'category' as const, label: 'API Documentation', collapsed: false, items: rustApiDocumentation,",
            "\n", "}", ";", "\n">>

\* lines 3778-3846
sidebars_to_js(sidebars) ==
    LET sorted_paths == SortStrings(DOMAIN sidebars)
    IN  FileComment \o NL \o NL \o StartMarker \o NL
           \o format_entries(sorted_paths, sidebars)
           \o EndMarker \o NL \o NL
           \o (IF sorted_paths # <<>> THEN CompatExports(sorted_paths[1]) ELSE <<>>)

\* lines 3208-3279
generate_all_sidebars(tls, crate_name, modules, crate_data, sidebarconfig_collapsed) ==
    sidebars_to_js(all_sidebars(tls, crate_name, modules, crate_data, sidebarconfig_collapsed))

(***************************************************************************)
(* Writer (writer.rs): merging a conversion's sidebars into the file       *)
(***************************************************************************)

\* str::find: the offset of the first occurrence, or -1
Find(s, p) ==
    LET hits == {i \in 0..(Len(s) - Len(p)) : SubSeq(s, i + 1, i + Len(p)) = p}
    IN  IF hits = {} THEN -1 ELSE CHOOSE i \in hits : \A j \in hits : i <= j

Contains(s, p) == Find(s, p) >= 0

Whitespace == {" ", "  ", "\n"}

RECURSIVE trim_start(_)
trim_start(s) == IF s # <<>> /\ Head(s) \in Whitespace THEN trim_start(Tail(s)) ELSE s

RECURSIVE trim_end(_)
trim_end(s) ==
    IF s # <<>> /\ s[Len(s)] \in Whitespace THEN trim_end(SubSeq(s, 1, Len(s) - 1)) ELSE s

trim(s) == trim_end(trim_start(s))

\* the pieces between the line breaks of a text: the pieces before the line
\* break nearest to the middle, then the pieces after it
RECURSIVE SplitLines(_)
SplitLines(text) ==
    LET breaks == {i \in 1..Len(text) : text[i] = "\n"}
        after == {i \in breaks : 2 * i >= Len(text)}
        mid == IF after # {} THEN CHOOSE i \in after : \A j \in after : i <= j
               ELSE CHOOSE i \in breaks : \A j \in breaks : j <= i
    IN  IF breaks = {} THEN <<text>>
        ELSE SplitLines(SubSeq(text, 1, mid - 1)) \o SplitLines(SubSeq(text, mid + 1, Len(text)))

\* str::lines: a line ends at a line break; what follows the last line break
\* is a line unless it is empty
lines(content) ==
    LET parts == SplitLines(content)
    IN  IF parts[Len(parts)] = <<>> THEN SubSeq(parts, 1, Len(parts) - 1) ELSE parts

\* the text between the start marker and the next "};": lines 116-140;
\* found is FALSE where the code takes "" (existing) or bails (new)
ExtractEntries(content) ==
    LET start_pos == Find(content, StartMarker)
        start == start_pos + Len(StartMarker)
        end_pos == Find(Drop(content, start), EndMarker)
    IN  IF start_pos < 0 \/ end_pos < 0 THEN [found |-> FALSE, text |-> <<>>, start |-> 0]
        ELSE [found |-> TRUE, text |-> SubSeq(content, start + 1, start + end_pos),
              start |-> start]

ParseStart ==
    [results |-> <<>>, current_key |-> <<>>, current_value |-> <<>>, brace_depth |-> 0,
     in_value |-> FALSE]

PushEntry(st) ==
    Append(st.results, [key |-> st.current_key, value |-> st.current_value])

\* one character of a line: lines 186-199
CountBrace(ch, st) ==
    IF ch \in {"[", "{"} THEN [st EXCEPT !.brace_depth = @ + 1]
    ELSE IF ch \in {"]", "}"}
    THEN IF st.brace_depth - 1 = 0
         THEN [results |-> PushEntry(st), current_key |-> <<>>,
               current_value |-> <<>>, brace_depth |-> 0, in_value |-> FALSE]
         ELSE [st EXCEPT !.brace_depth = @ - 1]
    ELSE st

\* the loop over the characters of a line, left to right: the first half,
\* and from the state it ends in, the second
RECURSIVE CountBraces(_, _)
CountBraces(chars, st) ==
    IF chars = <<>> THEN st
    ELSE IF Len(chars) = 1 THEN CountBrace(chars[1], st)
    ELSE LET half == Len(chars) \div 2
             first == CountBraces(SubSeq(chars, 1, half), st)
         IN  IF first.in_value \in BOOLEAN
             THEN CountBraces(SubSeq(chars, half + 1, Len(chars)), first)
             ELSE first

\* one line of parse_entries: lines 163-201
ParseLine(line, st) ==
    LET trimmed == trim(line)
    IN  IF starts_with(trimmed, Quote) /\ Contains(trimmed, <<"'", ":", " ", "[">>)
        THEN LET saved == IF st.current_key # <<>> THEN [st EXCEPT !.results = PushEntry(st)]
                          ELSE st
                 end_quote == Find(Tail(trimmed), Quote)
             IN  IF end_quote >= 0
                 THEN [saved EXCEPT !.current_key = SubSeq(trimmed, 2, end_quote + 1),
                                    !.current_value = line \o NL,
                                    !.in_value = TRUE,
                                    !.brace_depth = 1]
                 ELSE saved
        ELSE IF st.in_value
        THEN CountBraces(line, [st EXCEPT !.current_value = @ \o line \o NL])
        ELSE st

\* the loop over the lines, top to bottom: the first half, and from the state
\* it ends in, the second
RECURSIVE ParseLines(_, _)
ParseLines(ls, st) ==
    IF ls = <<>> THEN st
    ELSE IF Len(ls) = 1 THEN ParseLine(ls[1], st)
    ELSE LET half == Len(ls) \div 2
             first == ParseLines(SubSeq(ls, 1, half), st)
         IN  IF first.in_value \in BOOLEAN
             THEN ParseLines(SubSeq(ls, half + 1, Len(ls)), first)
             ELSE first

\* lines 155-210
parse_entries(content) ==
    LET st == ParseLines(lines(content), ParseStart)
    IN  IF st.current_key # <<>> THEN PushEntry(st) ELSE st.results

\* entries_map.insert for each parsed entry, in order
RECURSIVE InsertAll(_, _)
InsertAll(entries_map, entries) ==
    IF entries = <<>> THEN entries_map
    ELSE InsertAll(Insert(entries_map, Head(entries).key, Head(entries).value), Tail(entries))

\* the conversion's entries, then the existing file's
MergeEntriesExistingLast(existing_entries, new_entries) ==
    InsertAll(InsertAll([k \in {} |-> <<>>], parse_entries(new_entries)),
              parse_entries(existing_entries))

\* the existing file's entries, then the conversion's: lines 212-220
MergeEntries(existing_entries, new_entries) ==
    InsertAll(InsertAll([k \in {} |-> <<>>], parse_entries(existing_entries)),
              parse_entries(new_entries))

\* lines 222-235
RECURSIVE JoinEntries(_, _)
JoinEntries(sorted_keys, entries_map) ==
    IF sorted_keys = <<>> THEN <<>>
    ELSE LET value == entries_map[Head(sorted_keys)]
             last == trim_end(value)
         IN  value
             \o (IF Len(sorted_keys) > 1 /\ ~(last # <<>> /\ last[Len(last)] = ",")
                 THEN Comma ELSE <<>>)
             \o JoinEntries(Tail(sorted_keys), entries_map)

\* the text after a marker up to the next quote, if both are there
QuotedAfter(trimmed, marker) ==
    LET at == Find(trimmed, marker)
        rest == Drop(trimmed, at + Len(marker))
        close == Find(rest, Quote)
    IN  IF at < 0 \/ close < 0 THEN NoStr ELSE Some(SubSeq(rest, 1, close))

\* HashSet::insert refused: the id is already in seen_crates
SeenOnce(seen_crates, doc_id) == doc_id \in seen_crates

\* one line of the loop of generate_root_sidebar: lines 270-294
TitleLine(line, st) ==
    LET trimmed == trim(line)
        doc_id == QuotedAfter(trimmed, <<"id: ", "'">>)
        label == QuotedAfter(trimmed, <<"label: ", "'">>)
        isTitle == /\ Contains(trimmed, <<"rustCrateTitle: true">>)
                   /\ Contains(trimmed, <<"type: ">> \o Quote \o <<"d", "o", "c">> \o Quote)
                   /\ doc_id.some
                   /\ label.some
    IN  IF isTitle /\ ~SeenOnce(st.seen_crates, doc_id.v)
        THEN [seen_crates |-> st.seen_crates \cup {doc_id.v},
              crate_entries |-> Append(st.crate_entries,
                                       [doc_id |-> doc_id.v, label |-> label.v])]
        ELSE st

\* the loop over the lines, top to bottom: the first half, and from the state
\* it ends in, the second
RECURSIVE TitleLines(_, _)
TitleLines(ls, st) ==
    IF ls = <<>> THEN st
    ELSE IF Len(ls) = 1 THEN TitleLine(ls[1], st)
    ELSE LET half == Len(ls) \div 2
             first == TitleLines(SubSeq(ls, 1, half), st)
         IN  IF Len(first.crate_entries) >= 0
             THEN TitleLines(SubSeq(ls, half + 1, Len(ls)), first)
             ELSE first

TitleEntries(merged_entries) ==
    TitleLines(lines(merged_entries), [seen_crates |-> {}, crate_entries |-> <<>>]).crate_entries

\* crate_entries.sort_by(doc_id), stable
RECURSIVE InsertByDocId(_, _)
InsertByDocId(sorted, e) ==
    IF sorted = <<>> THEN <<e>>
    ELSE IF StrLess(e.doc_id, Head(sorted).doc_id) THEN <<e>> \o sorted
    ELSE <<Head(sorted)>> \o InsertByDocId(Tail(sorted), e)

RECURSIVE SortByDocId(_)
SortByDocId(entries) ==
    IF entries = <<>> THEN <<>>
    ELSE InsertByDocId(SortByDocId(SubSeq(entries, 1, Len(entries) - 1)),
                       entries[Len(entries)])

\* lines 300-305
RootLine(e) ==
    <<"  ", "{", " ", "type: ">> \o Quote \o <<"d", "o", "c">> \o Quote
       \o Sep \o <<"id: ">> \o Quote \o e.doc_id \o Quote
       \o Sep \o <<"label: ">> \o Quote \o e.label \o Quote
       \o Sep \o <<"className: ">> \o Quote \o RustMod \o Quote
       \o <<" ", "}", ",", "\n">>

RECURSIVE RootLines(_)
RootLines(entries) ==
    IF entries = <<>> THEN <<>> ELSE RootLine(Head(entries)) \o RootLines(Tail(entries))

\* lines 258-308
generate_root_sidebar(merged_entries) ==
    RootLines(SortByDocId(TitleEntries(merged_entries)))

\* lines 248-249
RootIntro ==
    <<"\n", "\n", "// Root sidebar with links to all crates (for main navigation)", "\n",
      "export const rootRustSidebar = ", "[", "\n">>

RootOutro == <<"]", ";", "\n">>

\* lines 110-254; ok is FALSE where the code bails
merge_rust_sidebars(existing, new_content) ==
    LET old == ExtractEntries(existing)
        new == ExtractEntries(new_content)
        header == SubSeq(new_content, 1, new.start)
        footer == Drop(new_content, new.start + Len(new.text) + Len(EndMarker))
        entries_map == MergeEntries(old.text, new.text)
        merged_entries == JoinEntries(SortStrings(DOMAIN entries_map), entries_map)
    IN  IF ~new.found THEN [ok |-> FALSE, text |-> <<>>]
        ELSE [ok |-> TRUE,
              text |-> header \o merged_entries \o EndMarker \o footer
                          \o RootIntro \o generate_root_sidebar(merged_entries) \o RootOutro]
(***************************************************************************)
(* Specification of one resolution: every invocation is one step           *)
(***************************************************************************)

Idle == [pc |-> "idle"]

\* ids 0 .. SmallIds-1 carry arbitrary items; SmallIds is never in the table
SmallIds == 3

\* chains and cycles of up to MaxChain re-exports
MaxChain == 20

ResolverShapes(n) ==
    {Plain(<<"s">>, "public", "struct"), Use("public", NoId, FALSE)}
        \cup {Use("public", t, FALSE) : t \in 0..n}

\* every table over the small ids: each id absent or of one of the shapes
SmallTables ==
    UNION {[S -> ResolverShapes(SmallIds)] : S \in SUBSET (0..(SmallIds - 1))}

\* 0 -> 1 -> ... -> len-1 -> last, where last closes a cycle (last < len),
\* dangles (last = len, terminal FALSE) or is a struct (last = len, terminal TRUE)
ChainTable(len, last, terminal) ==
    [i \in 0..(IF terminal THEN len ELSE len - 1) |->
        IF i = len THEN Plain(<<"s">>, "public", "struct")
        ELSE IF i = len - 1 THEN Use("public", last, TRUE)
        ELSE Use("public", i + 1, TRUE)]

ChainTables ==
    {ChainTable(len, last, FALSE) : len \in 1..MaxChain, last \in 0..MaxChain}
        \cup {ChainTable(len, len, TRUE) : len \in 1..MaxChain}

ResolverTables == SmallTables \cup ChainTables

InitResolve ==
    /\ \E index \in ResolverTables, start \in 0..MaxChain :
          /\ start \in DOMAIN index \cup {SmallIds}
          /\ rs = [index |-> index, start |-> start, id |-> start, depth |-> 0,
                   visited |-> {}, pc |-> "call", result |-> NoneResult]
    /\ ga = Idle
    /\ tl = Idle
    /\ out = Idle
    /\ fs = Idle

\* resolve_reexport_chain is entered (first call or recursive call)
ResolveStep ==
    /\ rs.pc = "call"
    /\ LET c == ResolveCall(rs.index, rs.id, rs.depth, rs.visited)
       IN  rs' = [rs EXCEPT !.id = c.id, !.depth = c.depth, !.visited = c.visited,
                            !.pc = IF c.ret THEN "done" ELSE "call",
                            !.result = c.result]
    /\ UNCHANGED <<ga, tl, out, fs>>

NextResolve == ResolveStep

\* a call that was entered runs on: the program is sequential
SpecResolve == InitResolve /\ [][NextResolve]_vars /\ WF_vars(NextResolve)

\* C1: started from any id with an empty visited set, on any finite item
\* table (cycles of every length, self-references, dangling targets included),
\* resolve_reexport_chain terminates, and returns either None or a pair whose
\* id is in the table.
C1_ResolveTerminates ==
    <>(/\ rs.pc = "done"
       /\ rs.result.found => rs.result.id \in DOMAIN rs.index)

\* a cycle longer than the depth bound was entered and the call returned None
C1_Witness ==
    /\ rs.pc = "done"
    /\ ~rs.result.found
    /\ rs.id \in DOMAIN rs.index
    /\ DOMAIN rs.index = 0..(MaxChain - 1)
    /\ rs.index[MaxChain - 1].import_id = 0


\* C14: an item that resolve_reexport_chain returns as resolved is not itself
\* a re-export.
C14_ResolvedNotReexport ==
    (rs.pc = "done" /\ rs.result.found) =>
        /\ rs.result.id \in DOMAIN rs.index
        /\ rs.index[rs.result.id].inner # "use"

\* a re-export with a recorded target that is in the table
Forwards(index, id) ==
    id \in DOMAIN index /\ index[id].inner = "use" /\ index[id].import_id # NoId

\* the id the target chain of `id` stands at after at most `hops` hops: the
\* first id that is not a re-export with a recorded target, if it comes so soon
RECURSIVE Walk(_, _, _)
Walk(index, id, hops) ==
    IF hops = 0 \/ ~Forwards(index, id) THEN id
    ELSE Walk(index, index[id].import_id, hops - 1)

\* C27: started with an empty visited set, resolve_reexport_chain returns the
\* first item of the target chain that is not a re-export with a recorded
\* target when that item is in the table and at most MAX_DEPTH hops away, and
\* unresolved in every other case (a cycle, a longer chain, a missing id).
C27_FirstTerminalWithinDepth ==
    rs.pc = "done" =>
       LET last == Walk(rs.index, rs.start, MAX_DEPTH)
       IN  rs.result = IF last \in DOMAIN rs.index /\ ~Forwards(rs.index, last)
                       THEN [found |-> TRUE, id |-> last]
                       ELSE NoneResult

\* a struct MAX_DEPTH hops away was returned
C27_Witness ==
    /\ rs.pc = "done"
    /\ rs.start = 0
    /\ rs.result = [found |-> TRUE, id |-> MAX_DEPTH]
    /\ rs.index[MAX_DEPTH].inner = "struct"
    /\ rs.depth = MAX_DEPTH
(***************************************************************************)
(* Specification of the module assigner: an item graph is loaded and       *)
(* group_by_module runs on it twice (two loads of the same rustdoc JSON    *)
(* give two HashMaps, each with an iteration order of its own)             *)
(***************************************************************************)

RECURSIVE Perms(_)
Perms(S) ==
    IF S = {} THEN {<<>>}
    ELSE UNION {{<<x>> \o p : p \in Perms(S \ {x})} : x \in S}

RECURSIVE Ascending(_)
Ascending(S) ==
    IF S = {} THEN <<>>
    ELSE LET m == CHOOSE x \in S : \A y \in S : x <= y
         IN  <<m>> \o Ascending(S \ {m})

CrateName == <<"c">>

PathEntry(path, crate_id, kind) == [path |-> path, crate_id |-> crate_id, kind |-> kind]

\* where a generated item lives: in the crate root, in c::a, in c::a::b
LocPath(loc, name) ==
    CASE loc = "root" -> <<CrateName, name>>
      [] loc = "a" -> <<CrateName, <<"a">>, name>>
      [] loc = "b" -> <<CrateName, <<"a">>, <<"b">>, name>>

\* the ids whose path table entry puts them directly under parent, ascending
ChildrenOf(paths, parent) ==
    Ascending({id \in DOMAIN paths :
                  /\ Len(paths[id].path) = Len(parent) + 1
                  /\ SubSeq(paths[id].path, 1, Len(parent)) = parent})

\* A crate c with modules a (id 1) and a::b (id 2), a function f (id 3) and a
\* second item x (id 4). A state "absent" leaves the item out of index and paths;
\* location "none" leaves f out of the path table only.
TreeCrate(aVis, bVis, fLoc, fVis, xKind, xName, xLoc) ==
    LET paths0 ==
            [id \in ({1 : z \in {aVis} \ {"absent"}}
                     \cup {2 : z \in {bVis} \ {"absent"}}
                     \cup {3 : z \in {fLoc} \ {"none"}}
                     \cup {4 : z \in {xLoc} \ {"absent"}}) |->
                CASE id = 1 -> PathEntry(<<CrateName, <<"a">>>>, 0, "module")
                  [] id = 2 -> PathEntry(<<CrateName, <<"a">>, <<"b">>>>, 0, "module")
                  [] id = 3 -> PathEntry(LocPath(fLoc, <<"f">>), 0, "function")
                  [] id = 4 -> PathEntry(LocPath(xLoc, xName), 0, xKind)]
        paths == [id \in DOMAIN paths0 \cup {0} |->
                    IF id = 0 THEN PathEntry(<<CrateName>>, 0, "module") ELSE paths0[id]]
        ids == {0, 3} \cup (DOMAIN paths0 \ {3})
    IN  [root |-> 0,
         index |-> [id \in ids |->
            CASE id = 0 -> Module(CrateName, "public", ChildrenOf(paths, <<CrateName>>))
              [] id = 1 -> Module(<<"a">>, aVis, ChildrenOf(paths, <<CrateName, <<"a">>>>))
              [] id = 2 -> Module(<<"b">>, bVis,
                                  ChildrenOf(paths, <<CrateName, <<"a">>, <<"b">>>>))
              [] id = 3 -> Plain(<<"f">>, fVis, "function")
              [] id = 4 -> IF xKind = "module" THEN Module(xName, "public", <<>>)
                           ELSE Plain(xName, "public", xKind)],
         paths |-> paths,
         external_crates |-> [k \in {} |-> <<>>],
         crate_version |-> NoStr]

TreeCrates ==
    {TreeCrate(aVis, bVis, fLoc, fVis, xKind, xName, xLoc) :
        aVis \in {"public", "crate", "absent"},
        bVis \in {"public", "crate", "absent"},
        fLoc \in {"root", "a", "b", "none"},
        fVis \in {"public", "crate"},
        xKind \in {"struct", "module"},
        xName \in {<<"f">>, <<"g">>},
        xLoc \in {"root", "a", "absent"}}

GroupCrates == TreeCrates

InitGroup ==
    /\ \E crate_data \in GroupCrates, include_private \in BOOLEAN :
          ga = [crate_data |-> crate_data, include_private |-> include_private,
                pc |-> "loaded", modules |-> EmptyModules, again |-> EmptyModules]
    /\ rs = Idle
    /\ tl = Idle
    /\ out = Idle
    /\ fs = Idle

\* group_by_module on the loaded item graph
GroupRun ==
    /\ ga.pc = "loaded"
    /\ \E order \in Perms(DOMAIN ga.crate_data.index) :
          ga' = [ga EXCEPT !.pc = "assigned",
                           !.modules = group_by_module(ga.crate_data,
                                           build_path_map(ga.crate_data),
                                           ga.include_private, order)]
    /\ UNCHANGED <<rs, tl, out, fs>>

\* group_by_module on the same item graph, loaded again
GroupRunAgain ==
    /\ ga.pc = "assigned"
    /\ \E order \in Perms(DOMAIN ga.crate_data.index) :
          ga' = [ga EXCEPT !.pc = "reassigned",
                           !.again = group_by_module(ga.crate_data,
                                         build_path_map(ga.crate_data),
                                         ga.include_private, order)]
    /\ UNCHANGED <<rs, tl, out, fs>>

NextGroup == GroupRun \/ GroupRunAgain

SpecGroup == InitGroup /\ [][NextGroup]_vars

\* the proper ancestors of a module path string: a, a::b for a::b::c
Ancestors(key) ==
    LET segs == split(key, ColonColon)
    IN  {join(SubSeq(segs, 1, n), ColonColon) : n \in 1..(Len(segs) - 1)}

\* C2: after module assignment every proper ancestor path of every bucket key
\* is a bucket key too.
C2_AncestorClosure ==
    ga.pc # "loaded" =>
        \A key \in DOMAIN ga.modules : Ancestors(key) \subseteq DOMAIN ga.modules

\* C3: two runs of the module assigner on the same item graph, path table and
\* visibility policy give identical buckets, order of entries included.
C3_SameBuckets ==
    ga.pc = "reassigned" => ga.again = ga.modules

(***************************************************************************)
(* Specification of the link resolver inside conversions: a conversion     *)
(* starts (the multi-file one stores its configuration in the thread-local *)
(* storage), resolves the references of the items it formats, and ends;    *)
(* conversions follow one another on the same thread                       *)
(***************************************************************************)

\* the thread-local storage when the thread starts
InitialTls == [BASE_PATH |-> <<>>, WORKSPACE_CRATES |-> <<>>, SIDEBAR_ROOT_LINK |-> NoStr]

\* conversions per thread
MaxRuns == 2

SiblingUnderscore == <<"f", "_", "b">>
SiblingHyphen == <<"f", "-", "b">>

\* A crate c with a local struct c::a::S (id 1), a local enum without a path
\* table entry (id 2, located by its span), and two functions (ids 3, 4) whose
\* signatures name them, an item T of the external crate 1 (id 5), std's Vec
\* (id 6) and names the path table does not know (ids 7, 8, 9).
LinkCrate(extName, fromSpan) ==
    [root |-> 0,
     index |-> [id \in {0, 1, 2, 3, 4} |->
        CASE id = 0 -> Module(CrateName, "public", <<1, 3, 4>>)
          [] id = 1 -> Plain(<<"S">>, "public", "struct")
          [] id = 2 -> WithSig(Plain(<<"U">>, "public", "enum"), fromSpan, <<>>)
          [] id = 3 -> WithSig(Plain(<<"f">>, "public", "function"), NoStr,
                          <<Ref(<<"S">>, 1), Ref(<<"c", ":", ":", "U">>, 2), Ref(<<"f", "_", "b", ":", ":", "m", ":", ":", "T">>, 5),
                            Ref(<<"V", "e", "c">>, 6), Ref(<<"S">>, 1), Ref(<<"V", "e", "c">>, 7),
                            Ref(<<"f", "_", "b", ":", ":", "m", ":", ":", "T">>, 5)>>)
          [] id = 4 -> WithSig(Plain(<<"g">>, "public", "function"), NoStr,
                          <<Ref(<<"$", "c", "r", "a", "t", "e", ":", ":", "X">>, 8), Ref(<<"q", ":", ":", "i", "n", "n", "e", "r", ":", ":", "R">>, 9),
                            Ref(<<"T">>, 5), Ref(<<"T">>, 5)>>)],
     paths |-> [id \in {0, 1, 3, 4, 5, 6} |->
        CASE id = 0 -> PathEntry(<<CrateName>>, 0, "module")
          [] id = 1 -> PathEntry(<<CrateName, <<"a">>, <<"S">>>>, 0, "struct")
          [] id = 3 -> PathEntry(<<CrateName, <<"f">>>>, 0, "function")
          [] id = 4 -> PathEntry(<<CrateName, <<"g">>>>, 0, "function")
          [] id = 5 -> PathEntry(<<SiblingUnderscore, <<"m">>, <<"T">>>>, 1, "trait")
          [] id = 6 -> PathEntry(<<Std, <<"v", "e", "c">>, <<"V", "e", "c">>>>, 2, "struct")],
     external_crates |-> [k \in {1, 2} |-> IF k = 1 THEN extName ELSE Std],
     crate_version |-> NoStr]

LinkCrates ==
    {LinkCrate(extName, fromSpan) :
        extName \in {SiblingUnderscore, SiblingHyphen},
        fromSpan \in {NoStr, Some(<<"p", "/", "s", "r", "c", "/", "a", "/", "b", ".", "r", "s">>), Some(<<"p", "/", "s", "r", "c", "/", "l", "i", "b", ".", "r", "s">>)}}

BasePaths == {<<>>, <<"/", "d", "o", "c", "s">>, <<"/", "d", "o", "c", "s", "/", "r">>}

WorkspaceCrateLists ==
    {<<>>, <<SiblingUnderscore>>, <<SiblingHyphen>>, <<CrateName, SiblingHyphen>>, <<<<"g">>>>}

\* a call of the link resolver: the item being formatted, the reference, and
\* the destination returned
NoCall == [item |-> NoId, ref |-> Ref(<<>>, NoId), dest |-> NoStr, made |-> FALSE]

NoMemo == [k \in {} |-> NoStr]

\* the items whose signatures the conversion formats
WithRefs(crate_data) == {id \in DOMAIN crate_data.index : crate_data.index[id].refs # <<>>}

NewRun(kind, runs, crate_data) ==
    [run |-> kind, runs |-> runs, crate_data |-> crate_data, item |-> NoId, pos |-> 0,
     memo |-> NoMemo, last |-> NoCall]

InitLinks ==
    /\ tl = InitialTls
    /\ out = NewRun("none", 0, LinkCrate(SiblingUnderscore, NoStr))
    /\ rs = Idle
    /\ ga = Idle
    /\ fs = Idle

\* convert_to_markdown_multifile is entered: lines 66-68
StartMultifile ==
    /\ out.run = "none"
    /\ out.runs < MaxRuns
    /\ \E crate_data \in LinkCrates, base_path \in BasePaths,
          workspace_crates \in WorkspaceCrateLists :
          /\ tl' = [BASE_PATH |-> base_path, WORKSPACE_CRATES |-> workspace_crates,
                    SIDEBAR_ROOT_LINK |-> NoStr]
          /\ out' = NewRun("multifile", out.runs + 1, crate_data)
    /\ UNCHANGED <<rs, ga, fs>>

\* convert_to_markdown is entered: it stores nothing in the thread-local storage
StartSingle ==
    /\ out.run = "none"
    /\ out.runs < MaxRuns
    /\ \E crate_data \in LinkCrates :
          out' = NewRun("single", out.runs + 1, crate_data)
    /\ UNCHANGED <<rs, ga, tl, fs>>

\* the conversion turns to the signature of another item
FormatItem ==
    /\ out.run # "none"
    /\ \E id \in WithRefs(out.crate_data) :
          /\ id > out.item
          /\ out' = [out EXCEPT !.item = id, !.pos = 0]
    /\ UNCHANGED <<rs, ga, tl, fs>>

\* a read that takes the base prefix out of the thread-local storage
AfterBorrowTakes(tls) == [tls EXCEPT !.BASE_PATH = <<>>]

\* reading the thread-local storage borrows it and copies the value out: the
\* storage is as it was
AfterBorrow(tls) == tls

\* generate_type_link is called for the next reference of the signature
LinkCall ==
    /\ out.run # "none"
    /\ out.item # NoId
    /\ out.pos < Len(out.crate_data.index[out.item].refs)
    /\ LET ref == out.crate_data.index[out.item].refs[out.pos + 1]
           key == [item |-> out.item, ref |-> ref]
           dest == generate_type_link(tl, ref.path, ref.id, out.crate_data)
       IN  out' = [out EXCEPT
                     !.pos = @ + 1,
                     !.memo = IF key \in DOMAIN @ THEN @
                              ELSE [k \in DOMAIN @ \cup {key} |->
                                       IF k = key THEN dest ELSE @[k]],
                     !.last = [item |-> out.item, ref |-> ref, dest |-> dest,
                               made |-> TRUE]]
    /\ tl' = AfterBorrow(tl)
    /\ UNCHANGED <<rs, ga, fs>>

\* the conversion returns
FinishRun ==
    /\ out.run # "none"
    /\ out' = NewRun("none", out.runs, out.crate_data)
    /\ UNCHANGED <<rs, ga, tl, fs>>

NextLinks == StartMultifile \/ StartSingle \/ FormatItem \/ LinkCall \/ FinishRun

SpecLinks == InitLinks /\ [][NextLinks]_vars

C9_NoLeftoverState ==
    (out.run = "single" /\ out.last.made) =>
        out.last.dest = generate_type_link(InitialTls, out.last.ref.path, out.last.ref.id,
                                           out.crate_data)

\* the registered sibling names with hyphens for underscores, and the reverse
WithUnderscores(tls) ==
    [tls EXCEPT !.WORKSPACE_CRATES =
        [i \in DOMAIN @ |-> replace(@[i], Hyphen, Underscore)]]

WithHyphens(tls) ==
    [tls EXCEPT !.WORKSPACE_CRATES =
        [i \in DOMAIN @ |-> replace(@[i], Underscore, Hyphen)]]

\* C10: registering a sibling project with hyphens or with underscores gives
\* the same destination for every reference, whichever of the two spellings
\* the origin library is reported with.
C10_HyphenUnderscore ==
    (out.run = "multifile" /\ out.last.made) =>
        /\ out.last.dest = generate_type_link(WithUnderscores(tl), out.last.ref.path,
                                              out.last.ref.id, out.crate_data)
        /\ out.last.dest = generate_type_link(WithHyphens(tl), out.last.ref.path,
                                              out.last.ref.id, out.crate_data)

\* a sibling registered with a hyphen matched a library reported with an
\* underscore and the reference got an internal destination
C10_Witness ==
    /\ out.run = "multifile"
    /\ out.last.made
    /\ out.last.ref.id = 5
    /\ tl.WORKSPACE_CRATES = <<SiblingHyphen>>
    /\ out.crate_data.external_crates[1] = SiblingUnderscore
    /\ out.last.dest.some
    /\ starts_with(out.last.dest.v, tl.BASE_PATH \o Slash \o SiblingUnderscore)

(***************************************************************************)
(* Specification of a multi-file conversion: the arguments of the call,    *)
(* then the pages and the navigation keys it returns                       *)
(***************************************************************************)

PageCrates ==
    {TreeCrate(aVis, bVis, fLoc, "public", xKind, <<"g">>, xLoc) :
        aVis \in {"public", "absent"},
        bVis \in {"public", "absent"},
        fLoc \in {"root", "a", "b", "none"},
        xKind \in {"struct", "module"},
        xLoc \in {"root", "a", "absent"}}

PageBasePaths ==
    {<<>>, Slash, SlashDocs, SlashDocsSlash, <<"/", "d", "o", "c", "s", "/", "r">>, Docs, <<"/", "r">>, <<"r">>}

InitPages ==
    /\ tl = InitialTls
    /\ \E crate_data \in PageCrates, include_private \in BOOLEAN, base_path \in PageBasePaths :
          out = [pc |-> "called", crate_data |-> crate_data,
                 include_private |-> include_private, base_path |-> base_path,
                 crate_name |-> <<>>, files |-> [k \in {} |-> NoStr], sidebar_keys |-> {}]
    /\ rs = Idle
    /\ ga = Idle
    /\ fs = Idle

\* convert_to_markdown_multifile, lines 57-162
ConvertPages ==
    /\ out.pc = "called"
    /\ out.crate_data.root \in DOMAIN out.crate_data.index
    /\ LET tls == [BASE_PATH |-> out.base_path, WORKSPACE_CRATES |-> <<>>,
                   SIDEBAR_ROOT_LINK |-> NoStr]
           crate_name == unwrap_or(out.crate_data.index[out.crate_data.root].name, Unknown)
           item_paths == build_path_map(out.crate_data)
       IN  /\ tl' = tls
           /\ \E order \in Perms(DOMAIN out.crate_data.index) :
                 LET modules == group_by_module(out.crate_data, item_paths,
                                                out.include_private, order)
                 IN  \E key_order \in Perms(DOMAIN modules) :
                        out' = [out EXCEPT
                                  !.pc = "returned",
                                  !.crate_name = crate_name,
                                  !.files = Files(modules, key_order, item_paths,
                                                  crate_name, tls),
                                  !.sidebar_keys =
                                      {sidebar_key(path) :
                                          path \in SidebarPaths(tls, crate_name, modules)}]
    /\ UNCHANGED <<rs, ga, fs>>

NextPages == ConvertPages

SpecPages == InitPages /\ [][NextPages]_vars

\* C4: every page of a conversion that declares a displayed_sidebar declares
\* a key of the sidebars the same conversion produced.
C4_PageKeyIsSidebarKey ==
    out.pc = "returned" =>
        \A path \in DOMAIN out.files :
            out.files[path].displayed_sidebar.some =>
                out.files[path].displayed_sidebar.v \in out.sidebar_keys

(***************************************************************************)
(* Specification of conversions written to one output area: each call of   *)
(* convert_json_file converts a crate and then writes its sidebars into    *)
(* the sidebar file, merging with the file a previous call left            *)
(***************************************************************************)

\* calls of convert_json_file on the output area
MaxWrites == 3

\* A crate with a function f, at the root or in a module a
WriterCrate(name, withModule) ==
    [root |-> 0,
     index |-> [id \in (IF withModule THEN {0, 1, 3} ELSE {0, 3}) |->
        CASE id = 0 -> Module(name, "public", IF withModule THEN <<1>> ELSE <<3>>)
          [] id = 1 -> Module(<<"a">>, "public", <<3>>)
          [] id = 3 -> Plain(<<"f">>, "public", "function")],
     paths |-> [id \in (IF withModule THEN {0, 1, 3} ELSE {0, 3}) |->
        CASE id = 0 -> PathEntry(<<name>>, 0, "module")
          [] id = 1 -> PathEntry(<<name, <<"a">>>>, 0, "module")
          [] id = 3 -> PathEntry(IF withModule THEN <<name, <<"a">>, <<"f">>>>
                                 ELSE <<name, <<"f">>>>, 0, "function")],
     external_crates |-> [k \in {} |-> <<>>],
     crate_version |-> NoStr]

WriterCrates == {WriterCrate(<<"c">>, FALSE), WriterCrate(<<"c">>, TRUE),
                 WriterCrate(<<"d">>, FALSE)}

WriterBasePaths == {SlashDocs, <<"/", "d", "o", "c", "s", "/", "r">>}

WriterWorkspaces == {<<>>, <<<<"c">>, <<"d">>>>}

NoSidebars == [k \in {} |-> <<>>]

\* fs: the sidebar file (exists, content) and the calls made (writes); sets,
\* prev and projects record what the calls were given: the keys and node
\* sequences written so far with a later call replacing an earlier one's key,
\* the same before the last call, and the crates converted.
InitWriter ==
    /\ tl = InitialTls
    /\ out = [pc |-> "none", crate_name |-> <<>>, sidebar |-> <<>>, sidebars |-> NoSidebars]
    /\ fs = [exists |-> FALSE, content |-> <<>>, writes |-> 0, sets |-> NoSidebars,
             prev |-> NoSidebars, projects |-> {}]
    /\ rs = Idle
    /\ ga = Idle

\* convert_to_markdown_multifile: lines 57-162 of converter.rs
ConvertForWrite ==
    /\ out.pc \in {"none", "written"}
    /\ fs.writes < MaxWrites
    /\ \E crate_data \in WriterCrates, base_path \in WriterBasePaths,
          workspace_crates \in WriterWorkspaces :
          LET tls == [BASE_PATH |-> base_path, WORKSPACE_CRATES |-> workspace_crates,
                      SIDEBAR_ROOT_LINK |-> NoStr]
              crate_name == unwrap_or(crate_data.index[crate_data.root].name, Unknown)
          IN  /\ crate_data.root \in DOMAIN crate_data.index
              /\ tl' = tls
              /\ \E order \in Perms(DOMAIN crate_data.index) :
                    LET modules == group_by_module(crate_data, build_path_map(crate_data),
                                                   FALSE, order)
                        sidebars == all_sidebars(tls, crate_name, modules, crate_data, FALSE)
                    IN  out' = [pc |-> "converted", crate_name |-> crate_name,
                                sidebar |-> sidebars_to_js(sidebars),
                                sidebars |-> [k \in {sidebar_key(path) :
                                                        path \in DOMAIN sidebars} |->
                                                 sidebars[CHOOSE path \in DOMAIN sidebars :
                                                             sidebar_key(path) = k]]]
    /\ UNCHANGED <<rs, ga, fs>>

\* the file after a write: lines 75-88 of writer.rs
final_content(file, sidebar_content) ==
    IF file.exists THEN merge_rust_sidebars(file.content, sidebar_content)
    ELSE [ok |-> TRUE, text |-> sidebar_content]

\* write_markdown_multifile_with_sidebar_path: lines 56-93 of writer.rs
WriteSidebar ==
    /\ out.pc = "converted"
    /\ LET final == final_content(fs, out.sidebar)
       IN  /\ final.ok
           /\ fs' = [exists |-> TRUE, content |-> final.text, writes |-> fs.writes + 1,
                     sets |-> [k \in DOMAIN fs.sets \cup DOMAIN out.sidebars |->
                                  IF k \in DOMAIN out.sidebars THEN out.sidebars[k]
                                  ELSE fs.sets[k]],
                     prev |-> fs.sets,
                     projects |-> fs.projects \cup {out.crate_name}]
    /\ out' = [out EXCEPT !.pc = "written"]
    /\ UNCHANGED <<rs, ga, tl>>

NextWriter == ConvertForWrite \/ WriteSidebar

SpecWriter == InitWriter /\ [][NextWriter]_vars

\* the entries of the rustSidebars object of a file, without the line break
\* that follows the opening brace
FileEntries(content) ==
    LET text == ExtractEntries(content).text
    IN  IF starts_with(text, NL) THEN Tail(text) ELSE text

\* a set of sidebars written out: a key and its node sequence after another
SetText(sets) == format_entries(SortStrings(DOMAIN sets), sets)

\* C5: after every write the rustSidebars object of the file holds, for each
\* key the last call produced, the node sequence of that call, and for every
\* other key written before, the node sequence it had; nothing else.
C5_MergeKeepsAndOverwrites ==
    fs.exists =>
        /\ ExtractEntries(fs.content).found
        /\ FileEntries(fs.content) = SetText(fs.sets)

\* a merge kept a key the call did not produce and replaced the node
\* sequence of a key it did produce
C5_Witness ==
    /\ fs.writes >= 2
    /\ out.pc = "written"
    /\ \E k \in DOMAIN fs.prev : k \notin DOMAIN out.sidebars
    /\ \E k \in DOMAIN fs.prev \cap DOMAIN out.sidebars : fs.prev[k] # out.sidebars[k]

\* the crates named by the title entries of a set of sidebars
TitleProjects(sets) ==
    {sets[k][i].label.v : <<k, i>> \in
        {<<k, i>> \in UNION {{k} \X DOMAIN sets[k] : k \in DOMAIN sets} :
            /\ sets[k][i].type = "doc"
            /\ sets[k][i].custom_props.some
            /\ Contains(sets[k][i].custom_props.v, <<"rustCrateTitle: true">>)}}

RootStart == <<"export const rootRustSidebar = ", "[", "\n">>

\* the root navigation set of a file: found is FALSE where the file exports
\* none, labels are those of its entries from top to bottom
RootSet(content) ==
    LET at == Find(content, RootStart)
        rest == Drop(content, at + Len(RootStart))
        close == Find(rest, RootOutro)
        ls == lines(SubSeq(rest, 1, close))
    IN  IF at < 0 \/ close < 0 THEN [found |-> FALSE, labels |-> <<>>]
        ELSE [found |-> TRUE,
              labels |-> [i \in DOMAIN ls |-> QuotedAfter(trim(ls[i]), <<"label: ", "'">>)]]

\* C6: after a merge the root navigation set of the file holds exactly one
\* entry for each crate with a title entry among the merged sidebars, and
\* no other entry.
C6_OneRootEntryPerProject ==
    (fs.exists /\ fs.writes >= 2) =>
        LET root == RootSet(fs.content)
        IN  /\ root.found
            /\ \A p \in TitleProjects(fs.sets) :
                  Cardinality({i \in DOMAIN root.labels : root.labels[i] = Some(p)}) = 1
            /\ \A i \in DOMAIN root.labels :
                  root.labels[i].some /\ root.labels[i].v \in TitleProjects(fs.sets)

\* C7: after every write the file holds a root navigation set with an entry
\* for every crate converted so far.
C7_RootAfterEveryWrite ==
    fs.exists =>
        LET root == RootSet(fs.content)
        IN  /\ root.found
            /\ \A p \in fs.projects : \E i \in DOMAIN root.labels : root.labels[i] = Some(p)

(***************************************************************************)
(* Specification of one call of the link resolver inside a multi-file      *)
(* conversion: the reference, the item graph and the thread-local storage  *)
(* the conversion stored, then the destination returned                    *)
(***************************************************************************)

RefKinds == {"struct", "enum", "trait", "function", "type_alias", "constant", "module", "macro"}

\* the modules between the crate name and the item name
RefModulePaths == {<<>>, <<<<"m">>>>, <<<<"i", "n", "n", "e", "r">>>>, <<<<"m">>, <<"n">>>>}

RefName == <<"T">>

\* A crate c and the target (id 1) of a reference. origin is the crate_id of
\* the target's path table entry: 0 for c itself, 1 for the crate f_b. The
\* path is the origin's name, the modules and the item's name, or, for the
\* root module of f_b (what "pub use f_b::*" names), the origin's name alone.
\* in_index tells whether the item store holds a record of the target.
RefCrate(origin, root_only, kind, mods, in_index) ==
    LET first == IF origin = 0 THEN CrateName ELSE SiblingUnderscore
        path == IF root_only THEN <<first>> ELSE <<first>> \o mods \o <<RefName>>
    IN  [root |-> 0,
         index |-> [id \in (IF in_index THEN {0, 1} ELSE {0}) |->
            IF id = 0 THEN Module(CrateName, "public", IF in_index THEN <<1>> ELSE <<>>)
            ELSE Plain(RefName, "public", kind)],
         paths |-> [id \in {0, 1} |->
            IF id = 0 THEN PathEntry(<<CrateName>>, 0, "module")
            ELSE PathEntry(path, origin, kind)],
         external_crates |-> [k \in {1} |-> SiblingUnderscore],
         crate_version |-> NoStr]

RefCrates ==
    {RefCrate(0, FALSE, kind, mods, in_index) :
        kind \in RefKinds, mods \in RefModulePaths, in_index \in BOOLEAN}
    \cup {RefCrate(1, FALSE, kind, mods, FALSE) : kind \in RefKinds, mods \in RefModulePaths}
    \cup {RefCrate(1, TRUE, "module", <<>>, FALSE)}

\* the path a reference is written with: the short name, or the full path
RefPaths(crate_data) ==
    LET path == crate_data.paths[1].path
    IN  {path[Len(path)], join(path, ColonColon)}

RefWorkspaces ==
    {<<>>, <<SiblingUnderscore>>, <<SiblingHyphen>>, <<CrateName, SiblingUnderscore>>}

InitRefs ==
    /\ \E base_path \in BasePaths, workspace_crates \in RefWorkspaces :
          tl = [BASE_PATH |-> base_path, WORKSPACE_CRATES |-> workspace_crates,
                SIDEBAR_ROOT_LINK |-> NoStr]
    /\ \E crate_data \in RefCrates :
          \E path \in RefPaths(crate_data) :
             out = [pc |-> "called", crate_data |-> crate_data, ref |-> Ref(path, 1),
                    dest |-> NoStr]
    /\ rs = Idle
    /\ ga = Idle
    /\ fs = Idle

\* generate_type_link: lines 1895-1902
ResolveRef ==
    /\ out.pc = "called"
    /\ out' = [out EXCEPT !.pc = "returned",
                          !.dest = generate_type_link(tl, out.ref.path, out.ref.id,
                                                      out.crate_data)]
    /\ tl' = AfterBorrow(tl)
    /\ UNCHANGED <<rs, ga, fs>>

NextRefs == ResolveRef

SpecRefs == InitRefs /\ [][NextRefs]_vars

\* the path table entry of the reference's target
RefTarget == out.crate_data.paths[out.ref.id]

\* the library the target comes from is one of the registered siblings
FromSibling ==
    /\ RefTarget.crate_id # 0
    /\ \E i \in 1..Len(tl.WORKSPACE_CRATES) :
          replace(tl.WORKSPACE_CRATES[i], Hyphen, Underscore)
             = replace(out.crate_data.external_crates[RefTarget.crate_id], Hyphen, Underscore)

\* C11: a reference to an item of a registered sibling gets an internal
\* destination that starts with the base prefix and the sibling's name.
C11_SiblingInternal ==
    (out.pc = "returned" /\ FromSibling) =>
        /\ out.dest.some
        /\ starts_with(out.dest.v,
                       tl.BASE_PATH \o Slash
                          \o out.crate_data.external_crates[RefTarget.crate_id] \o Slash)

\* the item graph of the sibling itself: the target with the same kind, module
\* path and name, defined in the crate being converted
AsLocal(crate_data, id) ==
    LET target == crate_data.paths[id]
        name == crate_data.external_crates[target.crate_id]
    IN  [root |-> 0,
         index |-> [i \in {0, id} |->
            IF i = 0 THEN Module(name, "public", <<id>>)
            ELSE Plain(target.path[Len(target.path)], "public", target.kind)],
         paths |-> [i \in {0, id} |->
            IF i = 0 THEN PathEntry(<<name>>, 0, "module")
            ELSE PathEntry(target.path, 0, target.kind)],
         external_crates |-> [k \in {} |-> <<>>],
         crate_version |-> NoStr]

\* C12: the destination of a reference to an item of a registered sibling is
\* the destination local resolution gives the same item (kind, module path,
\* name) in the sibling's own conversion.
C12_SiblingAsLocal ==
    (out.pc = "returned" /\ FromSibling /\ Len(RefTarget.path) >= 2) =>
        out.dest = generate_type_link(tl, out.ref.path, out.ref.id,
                                      AsLocal(out.crate_data, out.ref.id))

\* the kind prefix of the file name of an item page
KindPrefix(kind) == get_item_prefix([inner |-> kind])

\* C13: a reference whose path table entry carries the local marker gets the
\* destination base prefix / crate name / module path / kind prefix and name.
C13_LocalInternal ==
    (out.pc = "returned" /\ RefTarget.crate_id = 0) =>
        LET path == RefTarget.path
            mods == SubSeq(path, 2, Len(path) - 1)
        IN  /\ out.dest.some
            /\ out.dest.v = tl.BASE_PATH \o Slash \o path[1] \o Slash
                              \o (IF mods = <<>> THEN <<>> ELSE join(mods, Slash) \o Slash)
                              \o KindPrefix(RefTarget.kind) \o path[Len(path)]

(***************************************************************************)
(* Specification of the module assigner on item graphs with re-exports     *)
(***************************************************************************)

ModM == <<"m">>
ModO == <<"o">>

\* A crate c with the modules c::m (id 1) and c::o (id 2), a function f (id 3),
\* a second item (id 4) and a re-export u (id 5) that is a member of m.
\*   x_in: the module that lists f as a member; x_path: the module the path
\*     table puts f in ("o", "m": f is documented where it is re-exported), or
\*     "none": no path table entry;
\*   y: "same": a struct f in m; "alias_m", "alias_o": a re-export in the root
\*     whose target is m or o ("other": a struct g in o);
\*   target: the import id of u (NoId: the re-export names no item).
ReexportCrate(x_in, x_path, x_vis, y, u_vis, is_glob, target) ==
    LET mPath == <<CrateName, ModM>>
        oPath == <<CrateName, ModO>>
    IN  [root |-> 0,
         index |-> [id \in 0..5 |->
            CASE id = 0 -> Module(CrateName, "public",
                                  <<1, 2>> \o (IF y \in {"alias_m", "alias_o"} THEN <<4>> ELSE <<>>))
              [] id = 1 -> Module(ModM, "public",
                                  <<5>> \o (IF x_in = "m" THEN <<3>> ELSE <<>>)
                                        \o (IF y = "same" THEN <<4>> ELSE <<>>))
              [] id = 2 -> Module(ModO, "public",
                                  (IF x_in = "o" THEN <<3>> ELSE <<>>)
                                     \o (IF y = "other" THEN <<4>> ELSE <<>>))
              [] id = 3 -> Plain(<<"f">>, x_vis, "function")
              [] id = 4 -> (CASE y = "same" -> Plain(<<"f">>, "public", "struct")
                             [] y = "other" -> Plain(<<"g">>, "public", "struct")
                             [] y = "alias_m" -> Use("public", 1, FALSE)
                             [] y = "alias_o" -> Use("public", 2, FALSE))
              [] id = 5 -> Use(u_vis, target, is_glob)],
         paths |-> [id \in ({0, 1, 2} \cup (IF x_path = "none" THEN {} ELSE {3})
                                      \cup (IF y \in {"same", "other"} THEN {4} ELSE {})) |->
            CASE id = 0 -> PathEntry(<<CrateName>>, 0, "module")
              [] id = 1 -> PathEntry(mPath, 0, "module")
              [] id = 2 -> PathEntry(oPath, 0, "module")
              [] id = 3 -> PathEntry((IF x_path = "m" THEN mPath ELSE oPath) \o <<<<"f">>>>,
                                     0, "function")
              [] id = 4 -> IF y = "same" THEN PathEntry(mPath \o <<<<"f">>>>, 0, "struct")
                           ELSE PathEntry(oPath \o <<<<"g">>>>, 0, "struct")],
         external_crates |-> [k \in {} |-> <<>>],
         crate_version |-> NoStr]

ReexportCrates ==
    {ReexportCrate(x[1], x[2], x_vis, y, u_vis, is_glob, target) :
        x \in {<<"o", "o">>, <<"o", "m">>, <<"o", "none">>, <<"m", "none">>},
        x_vis \in {"public", "crate"},
        y \in {"same", "alias_m", "alias_o"},
        u_vis \in {"public", "crate"},
        is_glob \in BOOLEAN,
        target \in {0, 1, 2, 3, 4, NoId}}

InitReexport ==
    /\ \E crate_data \in ReexportCrates :
          ga = [crate_data |-> crate_data, include_private |-> FALSE,
                pc |-> "loaded", modules |-> EmptyModules, again |-> EmptyModules]
    /\ rs = Idle
    /\ tl = Idle
    /\ out = Idle
    /\ fs = Idle

NextReexport == GroupRun

SpecReexport == InitReexport /\ [][NextReexport]_vars

MKey == join(<<CrateName, ModM>>, ColonColon)

OKey == join(<<CrateName, ModO>>, ColonColon)

\* the re-export u
UseItem == ga.crate_data.index[5]

Visible(item) == ga.include_private \/ is_public(item)

\* the re-export u is a wildcard and its chain ends at the item k
GlobTo(k) ==
    /\ UseItem.is_glob
    /\ UseItem.import_id # NoId
    /\ LET r == resolve_reexport_chain(UseItem.import_id, ga.crate_data.index, 0, {})
       IN  r.found /\ r.id = k

Bucket(modules, key) == IF key \in DOMAIN modules THEN modules[key] ELSE <<>>

Holds(bucket, id) == \E i \in DOMAIN bucket : bucket[i].id = id

\* a member a wildcard makes appear in the re-exporting module
Copyable(id) ==
    /\ id \in DOMAIN ga.crate_data.index
    /\ Visible(ga.crate_data.index[id])
    /\ can_format_item(ga.crate_data.index[id])
    /\ ga.crate_data.index[id].inner \notin {"use", "module"}

Members(id) == {ga.crate_data.index[id].items[i] : i \in DOMAIN ga.crate_data.index[id].items}

\* the item graph without the re-export u
Without(crate_data) ==
    [crate_data EXCEPT !.index = [id \in DOMAIN crate_data.index \ {5} |->
        IF crate_data.index[id].inner = "module"
        THEN [crate_data.index[id] EXCEPT
                 !.items = SelectSeq(crate_data.index[id].items, LAMBDA i : i # 5)]
        ELSE crate_data.index[id]]]

\* the bucket `key` is one that assignment builds for the graph without u
AsWithout(key) ==
    LET crate_data == Without(ga.crate_data)
    IN  \E order \in Perms(DOMAIN crate_data.index) :
           Bucket(ga.modules, key) =
              Bucket(group_by_module(crate_data, build_path_map(crate_data),
                                     ga.include_private, order), key)

GlobCopied ==
    /\ \A id \in Members(2) :
          Copyable(id) =>
             \E i \in DOMAIN Bucket(ga.modules, MKey) :
                Bucket(ga.modules, MKey)[i] = Entry(ga.crate_data, id)
    /\ AsWithout(OKey)

\* C15 as stated: a wildcard re-export in m whose resolved target is the module
\* o puts every visible, renderable member of o that is neither a module nor a
\* re-export into m's bucket with its id and kind, and leaves o's bucket as it
\* is without the wildcard.
C15_EveryGlob == (ga.pc = "assigned" /\ GlobTo(2)) => GlobCopied

\* C15, for a wildcard that passes the visibility policy: a wildcard re-export
\* in m that is visible and whose resolved target is the module o puts every
\* visible, renderable member of o that is neither a module nor a re-export
\* into m's bucket with its id and kind, and leaves o's bucket as it is without
\* the wildcard.
C15_VisibleGlob == (ga.pc = "assigned" /\ GlobTo(2) /\ Visible(UseItem)) => GlobCopied

\* a visible wildcard reaches o through an alias and o's function is in both buckets
C15_Witness ==
    /\ ga.pc = "assigned"
    /\ GlobTo(2)
    /\ UseItem.import_id = 4
    /\ Visible(UseItem)
    /\ 3 \in Members(2)
    /\ Copyable(3)
    /\ Holds(Bucket(ga.modules, MKey), 3)
    /\ Holds(Bucket(ga.modules, OKey), 3)

ModuleIds == {id \in DOMAIN ga.crate_data.index : ga.crate_data.index[id].inner = "module" /\ id \in DOMAIN ga.crate_data.paths}

KeyOf(id) == join(ga.crate_data.paths[id].path, ColonColon)

\* the bucket without the entries of the re-export u
NotUse(bucket) == SelectSeq(bucket, LAMBDA e : e.id # 5)

\* C16: a re-export that passes the visibility policy and is a member of a
\* module is an entry of that module's bucket; and a simple re-export u in m
\* adds nothing else: m's bucket without u's entry is the bucket assignment
\* builds for the graph that has no u.
C16_ReexportListed ==
    ga.pc = "assigned" =>
       /\ \A mid \in ModuleIds : \A id \in Members(mid) :
             (ga.crate_data.index[id].inner = "use" /\ Visible(ga.crate_data.index[id])) =>
                \E i \in DOMAIN Bucket(ga.modules, KeyOf(mid)) :
                   Bucket(ga.modules, KeyOf(mid))[i] = Entry(ga.crate_data, id)
       /\ (~UseItem.is_glob /\ Visible(UseItem)) =>
             LET crate_data == Without(ga.crate_data)
             IN  \E order \in Perms(DOMAIN crate_data.index) :
                    NotUse(Bucket(ga.modules, MKey)) =
                       Bucket(group_by_module(crate_data, build_path_map(crate_data),
                                              ga.include_private, order), MKey)

\* a visible simple re-export of o's function: m's bucket lists the re-export
\* and not the function
C16_Witness ==
    /\ ga.pc = "assigned"
    /\ ~UseItem.is_glob
    /\ Visible(UseItem)
    /\ UseItem.import_id = 3
    /\ 3 \in Members(2)
    /\ Copyable(3)
    /\ Holds(Bucket(ga.modules, OKey), 3)
    /\ Holds(Bucket(ga.modules, MKey), 5)
    /\ ~Holds(Bucket(ga.modules, MKey), 3)

\* C17: a wildcard re-export u in m whose chain ends at m itself or at the
\* root (an ancestor of m) copies no item: m's bucket without u's entry is the
\* bucket assignment builds for the graph that has no u.
C17_SelfOrAncestorCopiesNothing ==
    (ga.pc = "assigned" /\ Visible(UseItem) /\ (GlobTo(1) \/ GlobTo(0))) =>
       LET crate_data == Without(ga.crate_data)
       IN  \E order \in Perms(DOMAIN crate_data.index) :
              NotUse(Bucket(ga.modules, MKey)) =
                 Bucket(group_by_module(crate_data, build_path_map(crate_data),
                                        ga.include_private, order), MKey)

\* C18: after assignment no bucket holds two entries with the same id.
C18_NoDuplicateIds ==
    ga.pc = "assigned" =>
       \A key \in DOMAIN ga.modules : \A i, j \in DOMAIN ga.modules[key] :
          ga.modules[key][i].id = ga.modules[key][j].id => i = j

\* the path the path table gives the item, or none
NoPath(id) == id \notin DOMAIN ga.crate_data.paths \/ ga.crate_data.paths[id].path = <<>>

\* C19: a renderable item that is not a re-export and has no path table entry
\* is in no bucket after assignment.
C19_PathlessInNoBucket ==
    ga.pc = "assigned" =>
       \A id \in DOMAIN ga.crate_data.index :
          (/\ can_format_item(ga.crate_data.index[id])
           /\ ga.crate_data.index[id].inner # "use"
           /\ NoPath(id)) =>
             \A key \in DOMAIN ga.modules : ~Holds(ga.modules[key], id)

(***************************************************************************)
(* Module hierarchy                                                        *)
(***************************************************************************)

\* the (parent, child) pairs build_module_hierarchy pushes for one bucket key;
\* i runs over 0..components.len()-1 as in the source
HierarchyPairs(module_name, crate_name) ==
    IF module_name = crate_name THEN {}
    ELSE LET relative_path == unwrap_or(strip_prefix(module_name, crate_name \o ColonColon),
                                        module_name)
             components == split(relative_path, ColonColon)
             n == Len(components)
             parent_path(i) == crate_name \o ColonColon \o join(SubSeq(components, 1, i + 1), ColonColon)
             child_path(i) ==
                 IF i + 1 < n - 1
                 THEN crate_name \o ColonColon \o join(SubSeq(components, 1, i + 2), ColonColon)
                 ELSE module_name
         IN  (IF n = 1 THEN {<<crate_name, module_name>>} ELSE {})
                \cup {<<parent_path(i), child_path(i)>> :
                         i \in {j \in 0..(n - 1) : parent_path(j) # module_name /\ n > j + 1}}

\* parent path -> its children, sorted and without duplicates
build_module_hierarchy(modules, crate_name) ==
    LET pairs == UNION {HierarchyPairs(key, crate_name) : key \in DOMAIN modules}
    IN  [parent \in {p[1] : p \in pairs} |->
            SortStrings({p[2] : p \in {q \in pairs : q[1] = parent}})]

(***************************************************************************)
(* Specification of the module hierarchy of a conversion: the buckets are  *)
(* assigned, then the hierarchy is built from their keys.                  *)
(***************************************************************************)

InitHierarchy ==
    /\ \E crate_data \in GroupCrates, include_private \in BOOLEAN :
          ga = [crate_data |-> crate_data, include_private |-> include_private,
                pc |-> "loaded", modules |-> EmptyModules, again |-> EmptyModules]
    /\ rs = Idle
    /\ tl = Idle
    /\ out = Idle
    /\ fs = Idle

\* root_item.name.as_deref().unwrap_or("unknown")
crate_name_of(crate_data) == unwrap_or(crate_data.index[crate_data.root].name, <<"unknown">>)

\* build_module_hierarchy on the assigned buckets
BuildHierarchy ==
    /\ ga.pc = "assigned"
    /\ out = Idle
    /\ out' = [pc |-> "built",
               crate_name |-> crate_name_of(ga.crate_data),
               module_hierarchy |-> build_module_hierarchy(ga.modules,
                                                           crate_name_of(ga.crate_data))]
    /\ UNCHANGED <<rs, ga, tl, fs>>

NextHierarchy == GroupRun \/ BuildHierarchy

SpecHierarchy == InitHierarchy /\ [][NextHierarchy]_vars

\* the child is registered under the parent
Registered(parent, child) ==
    /\ parent \in DOMAIN out.module_hierarchy
    /\ \E i \in DOMAIN out.module_hierarchy[parent] : out.module_hierarchy[parent][i] = child

\* C20: for every bucket key other than the root, every prefix of its path is
\* registered as the parent of the prefix one segment longer (for c::a::b: c
\* maps to c::a and c::a maps to c::a::b).
C20_EveryStepRegistered ==
    out.pc = "built" =>
       \A key \in DOMAIN ga.modules \ {out.crate_name} :
          LET segs == split(key, ColonColon)
          IN  \A n \in 1..(Len(segs) - 1) :
                 Registered(join(SubSeq(segs, 1, n), ColonColon),
                            join(SubSeq(segs, 1, n + 1), ColonColon))

(***************************************************************************)
(* Specification of the start of a conversion: the root item is looked up  *)
(* in the item table before anything else is done                          *)
(***************************************************************************)

\* the item graph whose root id has no record in the item table
Rootless(crate_data) ==
    [crate_data EXCEPT !.index = [id \in DOMAIN crate_data.index \ {crate_data.root} |->
                                     crate_data.index[id]]]

RootCrates == PageCrates \cup {Rootless(crate_data) : crate_data \in PageCrates}

\* entry is "multifile" (convert_to_markdown_multifile) or "single"
\* (convert_to_markdown)
InitRoot ==
    /\ \E crate_data \in RootCrates, include_private \in BOOLEAN, entry \in {"multifile", "single"} :
          out = [pc |-> "called", entry |-> entry, crate_data |-> crate_data,
                 include_private |-> include_private, crate_name |-> <<>>,
                 modules |-> EmptyModules, error |-> NoStr]
    /\ rs = Idle
    /\ ga = Idle
    /\ tl = Idle
    /\ fs = Idle

\* crate_data.index.get(&crate_data.root) is Some: the conversion goes on
ConvertRootFound ==
    /\ out.pc = "called"
    /\ out.crate_data.root \in DOMAIN out.crate_data.index
    /\ \E order \in Perms(DOMAIN out.crate_data.index) :
          out' = [out EXCEPT !.pc = "returned",
                             !.crate_name = crate_name_of(out.crate_data),
                             !.modules = group_by_module(out.crate_data,
                                             build_path_map(out.crate_data),
                                             out.include_private, order)]
    /\ UNCHANGED <<rs, ga, tl, fs>>

\* crate_data.index.get(&crate_data.root) is None: ok_or_else(..)? returns Err
ConvertRootMissing ==
    /\ out.pc = "called"
    /\ out.crate_data.root \notin DOMAIN out.crate_data.index
    /\ out' = [out EXCEPT !.pc = "failed",
                          !.error = Some(<<"Root item not found in index">>)]
    /\ UNCHANGED <<rs, ga, tl, fs>>

NextRoot == ConvertRootFound \/ ConvertRootMissing

SpecRoot == InitRoot /\ [][NextRoot]_vars

\* C21: a conversion of an item graph whose root id is absent from the item
\* table does not end with an error returned to the caller.
C21_RootlessNoError ==
    out.crate_data.root \notin DOMAIN out.crate_data.index => out.pc # "failed"

(***************************************************************************)
(* Specification of the navigation of a multi-file conversion: the pages   *)
(* and the sidebars one conversion returns                                 *)
(***************************************************************************)

NavCrates ==
    {TreeCrate(aVis, bVis, fLoc, fVis, xKind, <<"g">>, xLoc) :
        aVis \in {"public", "absent"},
        bVis \in {"public", "absent"},
        fLoc \in {"root", "a", "b", "none"},
        fVis \in {"public", "crate"},
        xKind \in {"struct", "module"},
        xLoc \in {"root", "a"}}

NavBasePaths == {<<>>, SlashDocs \o Slash \o <<"r">>}

NavWorkspaces == {<<>>, <<CrateName, <<"d">>>>}

InitNav ==
    /\ tl = InitialTls
    /\ \E crate_data \in NavCrates, include_private \in BOOLEAN, base_path \in NavBasePaths, workspace_crates \in NavWorkspaces :
          out = [pc |-> "called", crate_data |-> crate_data,
                 include_private |-> include_private, base_path |-> base_path,
                 workspace_crates |-> workspace_crates,
                 crate_name |-> <<>>, modules |-> EmptyModules,
                 files |-> [k \in {} |-> NoStr], sidebars |-> [k \in {} |-> <<>>]]
    /\ rs = Idle
    /\ ga = Idle
    /\ fs = Idle

\* convert_to_markdown_multifile, lines 57-162, with the sidebars of
\* generate_all_sidebars before they are serialized
ConvertNav ==
    /\ out.pc = "called"
    /\ out.crate_data.root \in DOMAIN out.crate_data.index
    /\ LET tls == [BASE_PATH |-> out.base_path, WORKSPACE_CRATES |-> out.workspace_crates,
                   SIDEBAR_ROOT_LINK |-> NoStr]
           crate_name == crate_name_of(out.crate_data)
           item_paths == build_path_map(out.crate_data)
       IN  /\ tl' = tls
           /\ \E order \in Perms(DOMAIN out.crate_data.index) :
                 LET modules == group_by_module(out.crate_data, item_paths,
                                                out.include_private, order)
                 IN  \E key_order \in Perms(DOMAIN modules) :
                        out' = [out EXCEPT
                                  !.pc = "returned",
                                  !.crate_name = crate_name,
                                  !.modules = modules,
                                  !.files = Files(modules, key_order, item_paths,
                                                  crate_name, tls),
                                  !.sidebars = all_sidebars(tls, crate_name, modules,
                                                            out.crate_data, FALSE)]
    /\ UNCHANGED <<rs, ga, fs>>

NextNav == ConvertNav

SpecNav == InitNav /\ [][NextNav]_vars

\* the doc references of a sidebar, those inside its categories included
DocRefs(items) ==
    {items[i] : i \in {j \in DOMAIN items : items[j].type = "doc"}}
       \cup UNION {{items[i].items[k] : k \in {j \in DOMAIN items[i].items : items[i].items[j].type = "doc"}} :
                      i \in {j \in DOMAIN items : items[j].type = "category"}}

\* the doc ids of the converted project start with the prefix and its name
ProjectRoot == Prefixed(sidebar_prefix(out.base_path), out.crate_name) \o Slash

\* the page a doc id of the converted project designates, as a key of the
\* files of the conversion (they are written below the project's directory)
PageOf(doc_id) == Drop(doc_id, Len(ProjectRoot)) \o DotMd

\* the doc references of the run to modules and items of the converted project
ProjectRefs ==
    {ref \in UNION {DocRefs(out.sidebars[path]) : path \in DOMAIN out.sidebars} :
        starts_with(ref.id, ProjectRoot)}

\* C22: every doc reference of a sidebar of the run to a module or item of the
\* converted project designates a page the same run produced.
C22_RefsHavePages ==
    out.pc = "returned" => \A ref \in ProjectRefs : PageOf(ref.id) \in DOMAIN out.files

\* the sidebar of the entry page of the converted project
RootSidebar == out.sidebars[Prefixed(sidebar_prefix(out.base_path), out.crate_name)]

CategoriesOf(items) == {items[i] : i \in {j \in DOMAIN items : items[j].type = "category"}}

Labels(items) == {items[i].label : i \in DOMAIN items}

\* C23: the sidebar of the entry page of a project converted with sibling
\* projects has a category that lists the projects of the run, and no
\* category of it lists a module of the project itself.
C23_RootListsProjectsOnly ==
    (out.pc = "returned" /\ Len(out.workspace_crates) > 1) =>
       /\ \E cat \in CategoriesOf(RootSidebar) :
             Labels(cat.items) = {Some(out.workspace_crates[i]) : i \in DOMAIN out.workspace_crates}
       /\ \A cat \in CategoriesOf(RootSidebar) : \A i \in DOMAIN cat.items :
             (starts_with(cat.items[i].id, ProjectRoot) /\ ends_with(cat.items[i].id, SlashIndex)) =>
                cat.items[i].id = ProjectRoot \o Drop(SlashIndex, 1)

\* the order of the kind categories
KindOrder ==
    <<"Modules", "Macros", "Structs", "Enums", "Traits", "Functions", "Type Aliases",
      "Constants", "Statics">>

\* the category of a kind of item
KindCategory(kind) ==
    CASE kind = "module" -> "Modules"
      [] kind = "macro" -> "Macros"
      [] kind = "struct" -> "Structs"
      [] kind = "enum" -> "Enums"
      [] kind = "trait" -> "Traits"
      [] kind = "function" -> "Functions"
      [] kind = "type_alias" -> "Type Aliases"
      [] kind = "constant" -> "Constants"
      [] kind = "static" -> "Statics"
      [] OTHER -> "none"

KindPos(label) == CHOOSE i \in DOMAIN KindOrder : <<KindOrder[i]>> = label

IsKindCategory(entry) ==
    entry.type = "category" /\ \E i \in DOMAIN KindOrder : entry.label = Some(<<KindOrder[i]>>)

\* the sidebar of the bucket `key`
SidebarOf(key) == out.sidebars[SidebarPath(tl, out.crate_name, key)]

\* the kind categories of the sidebar stand in the fixed order
InKindOrder(sidebar) ==
    \A i, j \in DOMAIN sidebar :
       (i < j /\ IsKindCategory(sidebar[i]) /\ IsKindCategory(sidebar[j])) =>
          KindPos(sidebar[i].label.v) < KindPos(sidebar[j].label.v)

\* the doc references with the item's name in the category of the item's kind
OwnRefs(sidebar, item) ==
    {p \in {<<i, k>> : i \in DOMAIN sidebar, k \in 1..3} :
        /\ sidebar[p[1]].type = "category"
        /\ sidebar[p[1]].label = Some(<<KindCategory(item.inner)>>)
        /\ p[2] \in DOMAIN sidebar[p[1]].items
        /\ sidebar[p[1]].items[p[2]].type = "doc"
        /\ sidebar[p[1]].items[p[2]].label = item.name}

NonEntryKeys == DOMAIN out.modules \ {out.crate_name}

Absent == [kind |-> "absent", content |-> <<>>, utf8 |-> TRUE]

Directory == [kind |-> "dir", content |-> <<>>, utf8 |-> TRUE]

File(content, utf8) == [kind |-> "file", content |-> content, utf8 |-> utf8]

\* Path::exists
exists(node) == node.kind # "absent"

\* three of the templates of TEMPLATES: two in one directory, one in another
TEMPLATES ==
    <<[path |-> <<"src/components/RustCode/index.tsx">>,
       dir |-> <<"src/components/RustCode">>,
       content |-> <<"RustCode/index.tsx.txt">>],
      [path |-> <<"src/components/RustCode/styles.module.css">>,
       dir |-> <<"src/components/RustCode">>,
       content |-> <<"RustCode/styles.module.css.txt">>],
      [path |-> <<"src/css/rust-documentation.css">>,
       dir |-> <<"src/css">>,
       content |-> <<"rust-documentation.css.txt">>]>>

TemplatePaths == {TEMPLATES[i].path : i \in DOMAIN TEMPLATES}

TemplateDirs == {TEMPLATES[i].dir : i \in DOMAIN TEMPLATES}

\* verify_docusaurus_project: the project is "valid", or "missing", "not_dir",
\* "no_package" or "no_config"
verify_docusaurus_project(project) == project = "valid"

\* the loop of init_components from template i on; disk is [files, dirs]
RECURSIVE init_from(_, _)
init_from(i, disk) ==
    IF i > Len(TEMPLATES) THEN [ok |-> TRUE, disk |-> disk]
    ELSE LET template == TEMPLATES[i]
         IN  IF exists(disk.files[template.path]) THEN init_from(i + 1, disk)
             ELSE IF disk.dirs[template.dir].kind = "file" THEN [ok |-> FALSE, disk |-> disk]
             ELSE init_from(i + 1,
                     [files |-> [disk.files EXCEPT ![template.path] = File(template.content, TRUE)],
                      dirs |-> [disk.dirs EXCEPT ![template.dir] = Directory]])

\* an installation that writes every template, whatever is there
init_overwrite(project, disk) ==
    [ok |-> TRUE,
     disk |-> [disk EXCEPT !.files = [p \in TemplatePaths |->
                  File((CHOOSE t \in {TEMPLATES[i] : i \in DOMAIN TEMPLATES} : t.path = p).content,
                       TRUE)]]]

init_components(project, disk) ==
    IF ~verify_docusaurus_project(project) THEN [ok |-> FALSE, disk |-> disk]
    ELSE init_from(1, disk)

\* the loop of sync_components from template i on
RECURSIVE sync_from(_, _)
sync_from(i, disk) ==
    IF i > Len(TEMPLATES) THEN [ok |-> TRUE, disk |-> disk]
    ELSE LET template == TEMPLATES[i]
             node == disk.files[template.path]
         IN  IF ~exists(node) THEN sync_from(i + 1, disk)
             ELSE IF node.kind = "dir" \/ ~node.utf8 THEN [ok |-> FALSE, disk |-> disk]
             ELSE IF node.content = template.content THEN sync_from(i + 1, disk)
             ELSE sync_from(i + 1,
                     [disk EXCEPT !.files[template.path] = File(template.content, TRUE)])

\* a synchronisation that installs what is missing too
sync_installing(project, disk) ==
    init_overwrite(project, disk)

sync_components(project, disk) ==
    IF ~verify_docusaurus_project(project) THEN [ok |-> FALSE, disk |-> disk]
    ELSE sync_from(1, disk)

(***************************************************************************)
(* Specification of one call of init_components or sync_components on a    *)
(* project directory                                                       *)
(***************************************************************************)

Projects == {"valid", "missing", "not_dir", "no_package", "no_config"}

\* what a template path can hold when its directory exists
TargetNodes(template) ==
    {Absent, Directory, File(template.content, TRUE), File(<<"edited">>, TRUE),
     File(<<"bytes">>, FALSE)}

\* the disks of a project: a path holds something only inside a directory
Disks ==
    {disk \in [files : {f \in [TemplatePaths -> UNION {TargetNodes(TEMPLATES[i]) : i \in DOMAIN TEMPLATES}] :
                          \A i \in DOMAIN TEMPLATES : f[TEMPLATES[i].path] \in TargetNodes(TEMPLATES[i])},
               dirs : [TemplateDirs -> {Absent, Directory, File(<<"edited">>, TRUE)}]] :
        \A i \in DOMAIN TEMPLATES :
           exists(disk.files[TEMPLATES[i].path]) => disk.dirs[TEMPLATES[i].dir].kind = "dir"}

InitComponents ==
    /\ \E project \in Projects, disk \in Disks :
          fs = [pc |-> "ready", project |-> project, before |-> disk, disk |-> disk,
                op |-> "none", ok |-> FALSE]
    /\ rs = Idle
    /\ ga = Idle
    /\ tl = Idle
    /\ out = Idle

CallInit ==
    /\ fs.pc = "ready"
    /\ LET r == init_components(fs.project, fs.disk)
       IN  fs' = [fs EXCEPT !.pc = "returned", !.op = "init", !.ok = r.ok, !.disk = r.disk]
    /\ UNCHANGED <<rs, ga, tl, out>>

CallSync ==
    /\ fs.pc = "ready"
    /\ LET r == sync_components(fs.project, fs.disk)
       IN  fs' = [fs EXCEPT !.pc = "returned", !.op = "sync", !.ok = r.ok, !.disk = r.disk]
    /\ UNCHANGED <<rs, ga, tl, out>>

NextComponents == CallInit \/ CallSync

SpecComponents == InitComponents /\ [][NextComponents]_vars

InitReturned == fs.pc = "returned" /\ fs.op = "init" /\ fs.project = "valid"

\* every template target that was there is as it was
ExistingUnchanged ==
    \A i \in DOMAIN TEMPLATES :
       exists(fs.before.files[TEMPLATES[i].path]) =>
          fs.disk.files[TEMPLATES[i].path] = fs.before.files[TEMPLATES[i].path]

\* every template target that was missing is a file with the template content
MissingCreated ==
    \A i \in DOMAIN TEMPLATES :
       ~exists(fs.before.files[TEMPLATES[i].path]) =>
          fs.disk.files[TEMPLATES[i].path] = File(TEMPLATES[i].content, TRUE)

AllExist == \A i \in DOMAIN TEMPLATES : exists(fs.disk.files[TEMPLATES[i].path])

SyncReturned == fs.pc = "returned" /\ fs.op = "sync"

\* no template target that was missing is there
NothingCreated ==
    \A i \in DOMAIN TEMPLATES :
       ~exists(fs.before.files[TEMPLATES[i].path]) => ~exists(fs.disk.files[TEMPLATES[i].path])

\* every template target that was there is a file with the template content
ExistingSynced ==
    \A i \in DOMAIN TEMPLATES :
       exists(fs.before.files[TEMPLATES[i].path]) =>
          fs.disk.files[TEMPLATES[i].path] = File(TEMPLATES[i].content, TRUE)

KeyPool ==
    {CrateName,
     join(<<CrateName, <<"a">>>>, ColonColon),
     join(<<CrateName, <<"a">>, <<"b">>>>, ColonColon),
     join(<<CrateName, <<"a">>, <<"b">>, <<"a">>>>, ColonColon),
     join(<<CrateName, <<"b">>>>, ColonColon),
     join(<<CrateName, CrateName>>, ColonColon),
     <<"d">>,
     join(<<<<"d">>, <<"a">>>>, ColonColon)}

InitKeys ==
    /\ \E keys \in SUBSET KeyPool :
          out = [pc |-> "called", crate_name |-> CrateName,
                 modules |-> [k \in keys |-> <<>>],
                 module_hierarchy |-> [k \in {} |-> <<>>]]
    /\ rs = Idle
    /\ ga = Idle
    /\ tl = Idle
    /\ fs = Idle

\* build_module_hierarchy(&modules, crate_name)
BuildFromKeys ==
    /\ out.pc = "called"
    /\ out' = [out EXCEPT !.pc = "built",
                          !.module_hierarchy = build_module_hierarchy(out.modules,
                                                                      out.crate_name)]
    /\ UNCHANGED <<rs, ga, tl, fs>>

NextKeys == BuildFromKeys

SpecKeys == InitKeys /\ [][NextKeys]_vars

\* C28: every child list of the hierarchy is sorted without duplicates, and
\* every child path is the path of its parent and one more segment.
C28_DirectChildrenSorted ==
    out.pc = "built" =>
       \A parent \in DOMAIN out.module_hierarchy :
          LET children == out.module_hierarchy[parent]
          IN  /\ \A i \in 1..(Len(children) - 1) : StrLess(children[i], children[i + 1])
              /\ \A i \in DOMAIN children :
                    /\ Len(split(children[i], ColonColon)) = Len(split(parent, ColonColon)) + 1
                    /\ starts_with(children[i], parent \o ColonColon)

(***************************************************************************)
(* Specification of the serialized keys of two navigation contexts: a      *)
(* context is a project and the bucket key of one of its modules           *)
(***************************************************************************)

Context(crate_name, module_key) == [crate_name |-> crate_name, module_key |-> module_key]

\* the contexts of the projects c and c_a
Contexts ==
    {Context(CrateName, CrateName),
     Context(CrateName, join(<<CrateName, <<"a">>>>, ColonColon)),
     Context(CrateName, join(<<CrateName, <<"a">>, <<"b">>>>, ColonColon)),
     Context(CrateName, join(<<CrateName, <<"a", "_", "b">>>>, ColonColon)),
     Context(CrateName, join(<<CrateName, <<"b">>>>, ColonColon)),
     Context(<<"c", "_", "a">>, <<"c", "_", "a">>),
     Context(<<"c", "_", "a">>, join(<<<<"c", "_", "a">>, <<"b">>>>, ColonColon))}

InitContexts ==
    /\ \E first \in Contexts, second \in Contexts, base_path \in BasePaths :
          out = [pc |-> "called", first |-> first, second |-> second,
                 base_path |-> base_path, first_key |-> <<>>, second_key |-> <<>>]
    /\ rs = Idle
    /\ ga = Idle
    /\ tl = Idle
    /\ fs = Idle

\* the key sidebars_to_js writes for the sidebar of a context
ContextKey(base_path, context) ==
    sidebar_key(SidebarPath([BASE_PATH |-> base_path, WORKSPACE_CRATES |-> <<>>,
                             SIDEBAR_ROOT_LINK |-> NoStr],
                            context.crate_name, context.module_key))

\* generate_all_sidebars and sidebars_to_js give both contexts their keys
SerializeKeys ==
    /\ out.pc = "called"
    /\ out' = [out EXCEPT !.pc = "serialized",
                          !.first_key = ContextKey(out.base_path, out.first),
                          !.second_key = ContextKey(out.base_path, out.second)]
    /\ UNCHANGED <<rs, ga, tl, fs>>

NextContexts == SerializeKeys

SpecContexts == InitContexts /\ [][NextContexts]_vars

\* C29: two navigation contexts that differ in project or in module path get
\* different serialized keys.
C29_DistinctContextsDistinctKeys ==
    (out.pc = "serialized" /\ out.first # out.second) => out.first_key # out.second_key

(***************************************************************************)
(* Specification of the pages of a conversion of an item graph with a      *)
(* wildcard re-export                                                      *)
(***************************************************************************)

\* the item graph with the item 3 of another kind (its name stays f)
OfKind(crate_data, kind) ==
    [crate_data EXCEPT !.index[3].inner = kind,
                       !.paths = [id \in DOMAIN crate_data.paths |->
                                     IF id = 3 THEN [crate_data.paths[id] EXCEPT !.kind = kind]
                                     ELSE crate_data.paths[id]]]

\* m holds the re-export u and, with y = "same", a struct f of its own; o
\* holds the item f, a function or a struct
OverwriteCrates ==
    {OfKind(ReexportCrate(x[1], x[2], "public", y, "public", is_glob, target), kind) :
        x \in {<<"o", "o">>, <<"o", "none">>, <<"m", "none">>},
        y \in {"same", "alias_o"},
        is_glob \in BOOLEAN,
        target \in {2, 4, NoId},
        kind \in {"function", "struct"}}

InitOverwrite ==
    /\ tl = InitialTls
    /\ \E crate_data \in OverwriteCrates :
          out = [pc |-> "called", crate_data |-> crate_data,
                 include_private |-> FALSE, base_path |-> <<>>,
                 crate_name |-> <<>>, files |-> [k \in {} |-> NoStr], sidebar_keys |-> {}]
    /\ rs = Idle
    /\ ga = Idle
    /\ fs = Idle

NextOverwrite == ConvertPages

SpecOverwrite == InitOverwrite /\ [][NextOverwrite]_vars

\* the buckets of the conversion (which entries a bucket holds does not depend
\* on the order of the HashMap)
OverwriteModules ==
    group_by_module(out.crate_data, build_path_map(out.crate_data), out.include_private,
                    Ascending(DOMAIN out.crate_data.index))

\* the bucket entries generate_individual_pages makes a page of, as pairs of
\* owning module and item id
PagedEntries ==
    {e \in UNION {{<<key, OverwriteModules[key][i].id>> : i \in DOMAIN OverwriteModules[key]} :
                     key \in DOMAIN OverwriteModules} :
        LET item == out.crate_data.index[e[2]]
        IN  /\ item.inner \notin {"use", "module"}
            /\ item.name.some
            /\ format_item_with_path(e[2], item, build_path_map(out.crate_data))}

ItemPages == {path \in DOMAIN out.files : out.files[path].kind = "item"}

\* C30: the bucket entries of a conversion that differ in owning module or in
\* item id are written to different page paths: there are as many item pages
\* as such entries.
C30_OnePagePerEntry ==
    out.pc = "returned" => Cardinality(ItemPages) = Cardinality(PagedEntries)

====
